---- MODULE Spec2Model ----
(***************************************************************************)
(* PeaceMaker UI: the WebSocketService session / reconnection layer (one    *)
(* service instance, the browser sockets it created, the reconnect timers  *)
(* it armed, the frames it handed to the sockets), the VideoService and    *)
(* AudioService capture layers with the browser's devices, timers and      *)
(* pending asynchronous work, and the App component's mute switch and       *)
(* notification list.                                                      *)
(***************************************************************************)
EXTENDS Integers, Sequences, FiniteSets, Bags, TLC

\* ---------------------------------------------------------------- bounds
\* sockets that exist at the same time (a closed socket the service no longer
\* holds is garbage and leaves the table)
MaxSockets == 2
\* reconnect timers pending at the same time
MaxTimers == 1
\* the same two limits for the runs that also exchange messages
MaxSocketsMsg == 1
MaxTimersMsg == 1
\* camera streams that exist at the same time (a stopped stream nothing refers
\* to leaves the table)
MaxStreams == 2
\* startVideo calls waiting for getUserMedia at the same time
MaxPendingStarts == 2
\* canvas.toBlob encodes in flight at the same time
MaxEncodes == 2
\* takeSnapshot encodes in flight at the same time
MaxSnapshots == 1
\* switchVideoDevice calls waiting for the camera at the same time
MaxPendingVideoSwitches == 1
\* microphone streams, and MediaRecorders, that exist at the same time
MaxRecorders == 2
\* startRecording calls waiting for the microphone at the same time
MaxPendingMics == 2
\* switchAudioDevice calls waiting for the microphone at the same time
MaxPendingSwitches == 1
\* audio chunks being decoded at the same time
MaxChunks == 1
\* samples of a decoded chunk
MaxSamples == 2
\* camera streams the VideoInterface component was given
MaxCameraStreams == 3
\* camera requests of the VideoInterface component pending at the same time
MaxCameraRequests == 3
\* mute, unmute and status frames on their way between the App and the backend
MaxInFlight == 3
\* notifications in the list
MaxNotifications == 3
\* the largest value of Date.now(), in milliseconds after the start
MaxNow == 2

\* ------------------------------------------------------ program constants
maxReconnectAttempts == 5
reconnectDelay == 1000

\* ------------------------------------------------------------ JS values
Null == "null"
NoSocket == 0

\* A JS value on the heap or in a JSON text: a string, an object or undefined.
Str(s) == [str |-> s]
Obj(o) == [obj |-> o]
Undefined == [undef |-> TRUE]

\* session ids a caller passes to connect(); Null is "no argument"
CallerIds == {"session_1"}
\* what `session_${Date.now()}_${Math.random()...}` can evaluate to
GeneratedIds == {"session_generated"}
\* what new Date().toISOString() can evaluate to
IsoTimes == {"2026-01-01T00:00:00.000Z"}

\* `ws://localhost:8000/ws/${this.sessionId}`
WsUrl(id) == <<"ws://localhost:8000/ws/", id>>

RECURSIVE Pow2(_)
Pow2(k) == IF k <= 0 THEN 1 ELSE 2 * Pow2(k - 1)

\* ------------------------------------------------------------- messages
MessageTypes == {"transcription", "sentiment"}
Callbacks == {"h1", "h2"}
NoHandler == "none"

\* object[f] of a parsed JSON object: undefined when the member is absent
Member(object, f) == IF f \in DOMAIN object THEN object[f] ELSE Undefined

\* event.data of an inbound frame: a JSON text of an object, or a text that
\* JSON.parse rejects
JsonText(object) == [json |-> TRUE, value |-> object]
BadText == [json |-> FALSE, value |-> << >>]
InboundFrames ==
  { JsonText([type |-> Str("transcription"), data |-> Obj([text |-> "hello"])]),
    JsonText([type |-> Str("sentiment"), data |-> Obj([label |-> "calm"])]),
    JsonText([type |-> Str("sentiment")]),
    JsonText([type |-> Str("status"), data |-> Obj([state |-> "idle"])]),
    JsonText([data |-> Obj([text |-> "untyped"])]),
    BadText }

\* the spread written the other way round: the caller's members win
SpreadCallerWins(message, now, sid) ==
  [f \in (DOMAIN message) \cup {"timestamp", "session_id"} |->
     IF f \in DOMAIN message THEN message[f]
     ELSE IF f = "timestamp" THEN Str(now)
     ELSE Str(sid)]

\* { ...message, timestamp: new Date().toISOString(), session_id: this.sessionId }
Spread(message, now, sid) ==
  [f \in (DOMAIN message) \cup {"timestamp", "session_id"} |->
     IF f = "timestamp" THEN Str(now)
     ELSE IF f = "session_id" THEN Str(sid)
     ELSE message[f]]

\* JSON.stringify of an object: members whose value is undefined are left out
Stringify(object) ==
  [f \in {g \in DOMAIN object : object[g] # Undefined} |-> object[f]]

\* messages the callers hand to send()
PingMessage == [type |-> Str("ping")]
CallerMessages ==
  { [type |-> Str("get_status")],
    [type |-> Str("audio_settings"), data |-> Undefined],
    [type |-> Str("control"), data |-> Obj([command |-> "start_recording"]),
     timestamp |-> Str("caller_time"), session_id |-> Str("caller_session")] }

\* the announcement onopen builds
ConnectionMessage(sid, now) ==
  [type |-> Str("connection"),
   data |-> Obj([session_id |-> sid, client_type |-> "web_ui", timestamp |-> now])]

NoMessage == [none |-> TRUE]

VARIABLES
  sockets,            \* the sockets that exist: slot -> [readyState, url]
  ws,                 \* this.ws: a slot of sockets, NoSocket for null
  sessionId,          \* this.sessionId
  reconnectAttempts,  \* this.reconnectAttempts
  isConnecting,       \* this.isConnecting
  autoReconnect,      \* this.autoReconnect
  messageHandlers,    \* this.messageHandlers: type -> callback
  timers,             \* pending setTimeout callbacks of scheduleReconnect
  registered,         \* per type, the callback of the latest onMessage not removed since
  nthSinceOpen,       \* reconnects scheduled since the last open event
  last                \* the operation that produced this state and what it did

\* the WebSocketService and its browser objects
wsVars == <<sockets, ws, sessionId, reconnectAttempts, isConnecting, autoReconnect,
            messageHandlers, timers, nthSinceOpen, registered, last>>

VARIABLES
  videoService,       \* the fields of the VideoService singleton
  camera,             \* the browser around it: camera streams, the element's
                      \* srcObject, interval timers, pending getUserMedia
                      \* requests and toBlob encodes
  videoLast           \* the VideoService step that produced this state

videoVars == <<videoService, camera, videoLast>>

VARIABLES
  audioService,       \* the fields of the AudioService singleton (audioChunks,
                      \* which is only written, is left out)
  mic,                \* the browser around it: microphone streams, recorders,
                      \* interval timers, pending getUserMedia requests and
                      \* chunks being decoded
  audioLast           \* the AudioService step that produced this state

audioVars == <<audioService, mic, audioLast>>

VARIABLES
  isMuted,            \* the App's isMuted state
  websocketConnected, \* the App's websocketConnected state
  websocketRef,       \* websocketRef.current: NoSocket for null
  backend,            \* the App's socket and the server behind it: readyState,
                      \* frames in flight each way, the server's mute state
  muteLast            \* the App step that produced this state

muteVars == <<isMuted, websocketConnected, websocketRef, backend, muteLast>>

VARIABLES
  notifications,      \* the service-based App's notifications state
  timeouts,           \* pending setTimeout callbacks of addNotification
  dateNow,            \* Date.now()
  noteLast            \* the notification step that produced this state

noteVars == <<notifications, timeouts, dateNow, noteLast>>

VARIABLES
  gradioLoaded,       \* the raw-socket App's gradioLoaded state
  reconnectTimer,     \* the pending setTimeout of the auto-reconnect effect
  react               \* React's bookkeeping for the App's two socket effects:
                      \* the dependency values of the last render, those of
                      \* the render before, and whether the effects of the
                      \* last render are still to run

appVars == <<gradioLoaded, reconnectTimer, react>>

VARIABLES
  appState,           \* the service-based App's isRecording and isLoading
                      \* states, and the values of both the last render showed
  videoInterface      \* the VideoInterface component: its isVideoOn prop, its
                      \* stream state, the element's srcObject, the camera
                      \* streams it was given, its pending camera requests
                      \* and the step that produced this state

uiVars == <<appState, videoInterface>>

vars == <<sockets, ws, sessionId, reconnectAttempts, isConnecting, autoReconnect,
          messageHandlers, timers, nthSinceOpen, registered, last,
          videoService, camera, videoLast, audioService, mic, audioLast,
          isMuted, websocketConnected, websocketRef, backend, muteLast,
          notifications, timeouts, dateNow, noteLast,
          gradioLoaded, reconnectTimer, react, appState, videoInterface>>

\* all variables but those of one part
notVideo == <<wsVars, audioVars, muteVars, noteVars, appVars, uiVars>>
notAudio == <<wsVars, videoVars, muteVars, noteVars, appVars, uiVars>>
notMute == <<wsVars, videoVars, audioVars, noteVars, appVars, uiVars>>
notNote == <<wsVars, videoVars, audioVars, muteVars, appVars, uiVars>>
notApp == <<wsVars, videoVars, audioVars, noteVars, uiVars>>

\* what an operation did besides changing the fields: its argument, its return
\* value, the connection statuses it notified, the message callbacks it invoked,
\* the message it passed to send(), the frames it handed to a socket, the
\* socket whose event it handles and the slot of the socket it created
Did(op) ==
  [op |-> op, arg |-> Null, sock |-> NoSocket, ret |-> "none", notify |-> << >>, calls |-> << >>,
   msg |-> NoMessage, sent |-> << >>, created |-> NoSocket]

Slots == 1..MaxSockets
Free == [readyState |-> "NONE", url |-> << >>]

\* ------------------------------------------------------- VideoService: values
NoStream == 0
NoTimer == 0
NoCanvas == [none |-> TRUE]
NoCallback == "none"
VideoElements == {"video_element"}

\* quality is kept in tenths: 8 is 0.8, 15 is 1.5, -5 is -0.5
QualityInputs == {-5, 0, 5, 15}
FrameRateInputs == {15}
\* the options of initialize and the settings of updateSettings
VideoOptions ==
  {<< >>} \cup {[quality |-> q] : q \in QualityInputs}
          \cup {[frameRate |-> f] : f \in FrameRateInputs}
          \cup {[width |-> 320, height |-> 240]}

\* a member used as a condition: absent (undefined) and 0 are falsy
Truthy(object, f) == f \in DOMAIN object /\ object[f] # 0

\* the constructor
NewVideoService ==
  [videoElement |-> Null, canvas |-> NoCanvas, stream |-> NoStream,
   isStreaming |-> FALSE, frameInterval |-> NoTimer, frameRate |-> 30,
   quality |-> 8, width |-> 640, height |-> 480,
   onVideoFrame |-> NoCallback, onVideoError |-> NoCallback]

StreamSlots == 1..MaxStreams
\* no stream acquired, the element shows nothing, no timer, nothing pending:
\* no getUserMedia request of startVideo or switchVideoDevice, no encode of
\* captureFrame (stale counts those drawn from a stopped stream) or takeSnapshot
NewCamera ==
  [tracks |-> [i \in StreamSlots |-> "none"], srcObject |-> NoStream,
   intervals |-> {}, pendingStarts |-> 0, pendingSwitches |-> 0,
   encodes |-> 0, stale |-> 0, snapshots |-> 0]

\* what a VideoService step did: the operation, its argument, what it returned,
\* the metadata of the onVideoFrame call it made, whether it called onVideoError,
\* and for a drawn or delivered frame the state of the tracks of the stream
\* the element showed when it was drawn
VideoDid(op) ==
  [op |-> op, arg |-> << >>, ret |-> "none", frame |-> << >>, err |-> FALSE,
   drawnFrom |-> "none"]

VideoInit ==
  /\ videoService = NewVideoService
  /\ camera = NewCamera
  /\ videoLast = VideoDid("new")

\* ------------------------------------------------------- AudioService: values
Num(n) == [num |-> n]
Bool(b) == [bool |-> b]
NoRecorder == 0

\* vadThreshold and samples are kept in tenths: 2 is 0.2, -3 is -0.3
VadInputs == {-1, 0, 3}
SampleInputs == {0, 3}
\* average byte-frequency volumes, 0..255
VolumeInputs == {0, 51, 52}
RECURSIVE SeqsUpTo(_, _)
SeqsUpTo(S, n) ==
  IF n = 0 THEN {<< >>}
  ELSE LET shorter == SeqsUpTo(S, n - 1)
       IN shorter \cup {Append(q, x) : q \in {r \in shorter : Len(r) = n - 1}, x \in S}
\* what a recorder hands to ondataavailable: an empty blob, a blob that does
\* not decode, or a blob that decodes to samples
Blobs ==
  {[size |-> 0, decodes |-> FALSE, samples |-> << >>],
   [size |-> 1, decodes |-> FALSE, samples |-> << >>]}
  \cup {[size |-> 1, decodes |-> TRUE, samples |-> q] : q \in SeqsUpTo(SampleInputs, MaxSamples)}

\* an empty blob and a blob that decodes to one loud sample
LoudBlobs ==
  {[size |-> 0, decodes |-> FALSE, samples |-> << >>],
   [size |-> 1, decodes |-> TRUE, samples |-> <<3>>]}

\* the settings objects given to updateSettings
AudioSettings ==
  {[vad_threshold |-> Num(x)] : x \in VadInputs}
  \cup {[sample_rate |-> Num(16000), echo_cancellation |-> Bool(FALSE)],
        [sample_rate |-> Num(0)]}
  \cup {[noise_suppression |-> Bool(v)] : v \in BOOLEAN}

\* the constructor
NewAudioService ==
  [mediaRecorder |-> NoRecorder, audioContext |-> FALSE, analyser |-> FALSE,
   microphone |-> NoStream, isRecording |-> FALSE, stream |-> NoStream,
   onAudioData |-> NoCallback, onTranscription |-> NoCallback,
   recordingInterval |-> NoTimer, sampleRate |-> 24000, channels |-> 1,
   vadThreshold |-> 2, echoCancellation |-> Bool(TRUE), noiseSuppression |-> Bool(TRUE)]

RecorderSlots == 1..MaxRecorders
NoRecorderYet == [state |-> "none", stream |-> NoStream]
NewMic ==
  [tracks |-> [i \in RecorderSlots |-> "none"],
   recorders |-> [i \in RecorderSlots |-> NoRecorderYet],
   intervals |-> {}, pendingStarts |-> 0, pendingSwitches |-> 0, chunks |-> EmptyBag]

NoChunk == [none |-> TRUE]
\* what an AudioService step did: the operation, its argument, what it returned,
\* the getUserMedia constraints it asked for, the chunk or volume it checked, the
\* threshold it compared with, and the arguments of the onAudioData and
\* onTranscription calls it made
AudioDid(op) ==
  [op |-> op, arg |-> << >>, ret |-> "none", request |-> << >>, chunk |-> NoChunk,
   volume |-> -1, threshold |-> 0, data |-> << >>, transcription |-> << >>]

AudioInit ==
  /\ audioService = NewAudioService
  /\ mic = NewMic
  /\ audioLast = AudioDid("new")

\* ------------------------------------------------------ App (mute): values
AppSocket == 1
MuteDid(op) == [op |-> op, sent |-> << >>, message |-> NoMessage]

\* the useState / useRef initial values; no socket, a server that is not muted
MuteInit ==
  /\ isMuted = FALSE
  /\ websocketConnected = FALSE
  /\ websocketRef = NoSocket
  /\ backend = [readyState |-> "NONE", toServer |-> << >>, toClient |-> << >>,
                muted |-> FALSE]
  /\ muteLast = MuteDid("new")

\* --------------------------------------------- App (notifications): values
NotificationTypes == {"error", "success", "info", "warning"}
NotificationMessages == {"Recording failed"}
\* what a notification step did: the id and type it worked on, and for an
\* error handled by handleAppError the context, the error code handleError
\* chose and the message shown
NoteDid(op) ==
  [op |-> op, id |-> Undefined, type |-> Null, context |-> Null, errorCode |-> Null,
   message |-> Null, error |-> Null, errorType |-> Null, fallback |-> Null]

NoteInit ==
  /\ notifications = << >>
  /\ timeouts = EmptyBag
  /\ dateNow = 0
  /\ noteLast = NoteDid("new")

WsInit ==
  /\ sockets = [i \in Slots |-> Free]
  /\ ws = NoSocket
  /\ sessionId = Null
  /\ reconnectAttempts = 0
  /\ isConnecting = FALSE
  /\ autoReconnect = TRUE
  /\ messageHandlers = << >>
  /\ timers = EmptyBag
  /\ nthSinceOpen = 0
  /\ registered = [t \in MessageTypes |-> NoHandler]
  /\ last = Did("new")

\* the App after its first render: the iframe has not loaded, and the effects
\* of the first render found nothing to do
AppInit ==
  /\ gradioLoaded = FALSE
  /\ reconnectTimer = FALSE
  /\ react = [deps |-> <<FALSE, FALSE>>, prev |-> <<FALSE, FALSE>>, due |-> FALSE]

\* the service-based App after its first render
NewAppState ==
  [isRecording |-> FALSE, isLoading |-> FALSE,
   shown |-> [isRecording |-> FALSE, isLoading |-> FALSE]]

\* the VideoInterface component after its first render, video off
NewVideoInterface ==
  [isVideoOn |-> FALSE, stream |-> NoStream, srcObject |-> NoStream, error |-> FALSE,
   tracks |-> [i \in 1..MaxCameraStreams |-> "none"], pending |-> 0, op |-> "new"]

UiInit == appState = NewAppState /\ videoInterface = NewVideoInterface

Init == WsInit /\ VideoInit /\ AudioInit /\ MuteInit /\ NoteInit /\ AppInit /\ UiInit

\* this.ws?.readyState === WebSocket.OPEN, on the socket table socks
IsOpen(socks, w) == w # NoSocket /\ socks[w].readyState = "OPEN"

SetReadyState(socks, s, st) == [socks EXCEPT ![s].readyState = st]

\* WebSocket.close(): a socket that is connecting or open starts closing
CloseSocket(socks, s) ==
  IF socks[s].readyState \in {"CONNECTING", "OPEN"}
  THEN SetReadyState(socks, s, "CLOSING")
  ELSE socks

\* a closed socket raises no more events: once the service does not hold it in
\* this.ws it is unreachable
Collect(socks, w) ==
  [i \in Slots |-> IF i # w /\ socks[i].readyState = "CLOSED" THEN Free ELSE socks[i]]

FreeSlots(socks) == {i \in Slots : socks[i].readyState = "NONE"}
LowestFree(socks) == CHOOSE i \in FreeSlots(socks) : \A j \in FreeSlots(socks) : i <= j

\* ------------------------------------------------------------------ send
\* send() without the readyState test
SendResultNoStateTest(open) == [transmit |-> TRUE, ret |-> TRUE]

\* send() that hands the frame over first and tests the state for the return value
SendResultTransmitAnyway(open) == [transmit |-> TRUE, ret |-> open]

\* the if/else of send(): the frame is handed to the socket exactly when the
\* socket is open, and that is also the return value
SendResult(open) == [transmit |-> open, ret |-> open]

\* send(message) with the service fields socks, w, sid; did is the record of the
\* calling operation
DoSend(socks, w, sid, message, did) ==
  LET res == SendResult(IsOpen(socks, w)) IN
  \E now \in IsoTimes :
    last' = [did EXCEPT
              !.msg = message,
              !.ret = IF res.ret THEN "true" ELSE "false",
              !.sent = IF res.transmit
                       THEN <<[sock |-> w,
                               frame |-> Stringify(Spread(message, now, sid))]>>
                       ELSE << >>]

Send ==
  \E message \in CallerMessages :
    /\ DoSend(sockets, ws, sessionId, message, Did("send"))
    /\ UNCHANGED <<sockets, ws, sessionId, reconnectAttempts, isConnecting,
                   autoReconnect, messageHandlers, timers, nthSinceOpen, registered>>

\* ping(): send({ type: 'ping' })
Ping ==
  /\ DoSend(sockets, ws, sessionId, PingMessage, Did("ping"))
  /\ UNCHANGED <<sockets, ws, sessionId, reconnectAttempts, isConnecting,
                 autoReconnect, messageHandlers, timers, nthSinceOpen, registered>>

\* --------------------------------------------------------------- connect
\* the guard without the isConnecting flag
ConnectGuardOnlyOpen(connecting, open) == open

\* the guard of connect(): return without doing anything
ConnectGuard(connecting, open) == connecting \/ open

\* sessionId || `session_${Date.now()}_${Math.random()...}`
SessionIdFor(arg) == IF arg = Null THEN GeneratedIds ELSE {arg}

\* connect(arg): the guard, then one new socket on the session's URL
DoConnect(arg, op, limit) ==
  IF ConnectGuard(isConnecting, IsOpen(sockets, ws))
  THEN /\ UNCHANGED <<sockets, ws, sessionId, isConnecting>>
       /\ last' = [Did(op) EXCEPT !.arg = arg]
  ELSE /\ Cardinality(Slots \ FreeSlots(Collect(sockets, NoSocket))) < limit
       /\ LET socks == Collect(sockets, NoSocket)
              slot == LowestFree(socks)
          IN \E id \in SessionIdFor(arg) :
               /\ isConnecting' = TRUE
               /\ sessionId' = id
               /\ sockets' = [socks EXCEPT ![slot] = [readyState |-> "CONNECTING",
                                                      url |-> WsUrl(id)]]
               /\ ws' = slot
               /\ last' = [Did(op) EXCEPT !.arg = arg, !.created = slot]

ConnectWithin(limit) ==
  \E arg \in CallerIds \cup {Null} :
    /\ DoConnect(arg, "connect", limit)
    /\ UNCHANGED <<reconnectAttempts, autoReconnect, messageHandlers, timers, nthSinceOpen, registered>>

\* the timer callback without the autoReconnect test
TimerConnectsAlways(auto, open) == ~open

\* the test in the setTimeout callback of scheduleReconnect
TimerConnects(auto, open) == auto /\ ~open

\* a timer callback that calls connect() without an argument
ReconnectArgNone(sid) == Null

\* the argument of this.connect(this.sessionId) in the timer callback
ReconnectArg(sid) == sid

\* the setTimeout callback of scheduleReconnect
TimerFireWithin(limit) ==
  \E t \in BagToSet(timers) :
    /\ timers' = timers (-) SetToBag({t})
    /\ IF TimerConnects(autoReconnect, IsOpen(sockets, ws))
       THEN DoConnect(ReconnectArg(sessionId), "timer", limit)
       ELSE /\ UNCHANGED <<sockets, ws, sessionId, isConnecting>>
            /\ last' = [Did("timer") EXCEPT !.arg = sessionId]
    /\ UNCHANGED <<reconnectAttempts, autoReconnect, messageHandlers, nthSinceOpen, registered>>

\* ---------------------------------------------------------- socket events
\* ws.onopen of socket s
OnOpen ==
  \E s \in Slots :
    /\ sockets[s].readyState = "CONNECTING"
    /\ sockets' = SetReadyState(sockets, s, "OPEN")
    /\ isConnecting' = FALSE
    /\ reconnectAttempts' = 0
    /\ nthSinceOpen' = 0
    /\ UNCHANGED <<ws, sessionId, autoReconnect, messageHandlers, timers, registered>>
    /\ \E now \in IsoTimes :
         DoSend(sockets', ws, sessionId, ConnectionMessage(sessionId, now),
                [Did("open") EXCEPT !.sock = s, !.notify = <<"connected">>])

\* the delay computed from the attempt count without the - 1
ScheduleReconnectNoMinusOne(attempts) ==
  [attempts |-> attempts + 1,
   delay |-> reconnectDelay * Pow2(attempts + 1)]

\* scheduleReconnect(): the new attempt count and the timer it arms
ScheduleReconnect(attempts) ==
  [attempts |-> attempts + 1,
   delay |-> reconnectDelay * Pow2((attempts + 1) - 1)]

\* the onclose test with <= for <
ShouldReconnectInclusive(auto, attempts) == auto /\ attempts <= maxReconnectAttempts

\* the onclose test for scheduling a reconnect
ShouldReconnect(auto, attempts) == auto /\ attempts < maxReconnectAttempts

\* ws.onclose of socket s
OnCloseWithin(limit) ==
  \E s \in Slots :
    /\ sockets[s].readyState \notin {"NONE", "CLOSED"}
    /\ sockets' = Collect(SetReadyState(sockets, s, "CLOSED"), ws)
    /\ isConnecting' = FALSE
    /\ IF ShouldReconnect(autoReconnect, reconnectAttempts)
       THEN LET r == ScheduleReconnect(reconnectAttempts) IN
            /\ BagCardinality(timers) < limit
            /\ reconnectAttempts' = r.attempts
            /\ timers' = timers (+) SetToBag({[nth |-> nthSinceOpen + 1,
                                               delay |-> r.delay]})
            /\ nthSinceOpen' = nthSinceOpen + 1
       ELSE UNCHANGED <<reconnectAttempts, timers, nthSinceOpen, registered>>
    /\ last' = [Did("close") EXCEPT !.sock = s, !.notify = <<"disconnected">>]
    /\ UNCHANGED <<ws, sessionId, autoReconnect, messageHandlers, registered>>

\* ws.onerror of socket s
OnError ==
  \E s \in Slots :
    /\ sockets[s].readyState \in {"CONNECTING", "OPEN"}
    /\ last' = [Did("error") EXCEPT !.sock = s, !.notify = <<"error">>]
    /\ UNCHANGED <<sockets, ws, sessionId, reconnectAttempts, isConnecting,
                   autoReconnect, messageHandlers, timers, nthSinceOpen, registered>>

\* ------------------------------------------------------------ disconnect
Disconnect ==
  /\ autoReconnect' = FALSE
  /\ sockets' = Collect(IF ws # NoSocket THEN CloseSocket(sockets, ws) ELSE sockets,
                        NoSocket)
  /\ ws' = NoSocket
  /\ isConnecting' = FALSE
  /\ last' = [Did("disconnect") EXCEPT !.notify = <<"disconnected">>]
  /\ UNCHANGED <<sessionId, reconnectAttempts, messageHandlers, timers, nthSinceOpen, registered>>

SetAutoReconnect ==
  \E enabled \in BOOLEAN :
    /\ autoReconnect' = enabled
    /\ last' = [Did("setAutoReconnect") EXCEPT !.arg = IF enabled THEN "true" ELSE "false"]
    /\ UNCHANGED <<sockets, ws, sessionId, reconnectAttempts, isConnecting,
                   messageHandlers, timers, nthSinceOpen, registered>>

\* --------------------------------------------------------------- messages
\* a registry in which the first registration of a key wins
MapSetKeepFirst(map, key, value) ==
  [k \in (DOMAIN map) \cup {key} |-> IF k \in DOMAIN map THEN map[k] ELSE value]

\* Map.set(type, handler): one entry per key, the new value replaces the old
MapSet(map, key, value) ==
  [k \in (DOMAIN map) \cup {key} |-> IF k = key THEN value ELSE map[k]]

\* Map.delete(type)
MapDelete(map, key) == [k \in (DOMAIN map) \ {key} |-> map[k]]

\* Map.get(type) for the type member of a parsed message
MapGet(map, type) ==
  IF \E k \in DOMAIN map : Str(k) = type
  THEN map[CHOOSE k \in DOMAIN map : Str(k) = type]
  ELSE NoHandler

\* onMessage(type, handler)
OnMessage ==
  \E type \in MessageTypes, handler \in Callbacks :
    /\ messageHandlers' = MapSet(messageHandlers, type, handler)
    /\ registered' = [registered EXCEPT ![type] = handler]
    /\ last' = [Did("onMessage") EXCEPT !.arg = type]
    /\ UNCHANGED <<sockets, ws, sessionId, reconnectAttempts, isConnecting,
                   autoReconnect, timers, nthSinceOpen>>

\* removeMessageHandler(type)
RemoveMessageHandler ==
  \E type \in MessageTypes :
    /\ messageHandlers' = MapDelete(messageHandlers, type)
    /\ registered' = [registered EXCEPT ![type] = NoHandler]
    /\ last' = [Did("removeMessageHandler") EXCEPT !.arg = type]
    /\ UNCHANGED <<sockets, ws, sessionId, reconnectAttempts, isConnecting,
                   autoReconnect, timers, nthSinceOpen>>

\* handleMessage(message): the callbacks it invokes, each with its argument
HandleMessage(map, message) ==
  LET handler == MapGet(map, Member(message, "type")) IN
  IF handler # NoHandler
  THEN <<[callback |-> handler, arg |-> Member(message, "data")]>>
  ELSE << >>

\* the registered callbacks that throw when they are invoked
ThrowingCallbacks == {"h2"}
HandlerThrows(calls) == \E i \in DOMAIN calls : calls[i].callback \in ThrowingCallbacks

\* try { handler(message.data) } catch (error) { console.error(...) }: whether
\* the error of a throwing handler leaves handleMessage
HandleMessageRaises(threw) == FALSE

\* an onmessage without its try: the error goes to the browser
OnMessageRaisesUncaught(parseFailed, handleRaised) == parseFailed \/ handleRaised

\* try { JSON.parse; handleMessage } catch (error) { console.error(...) }:
\* whether an error leaves the onmessage handler
OnMessageRaises(parseFailed, handleRaised) == FALSE

\* ws.onmessage of socket s: JSON.parse, then handleMessage; a text that does
\* not parse is caught and logged
OnMessageEvent ==
  \E s \in Slots, text \in InboundFrames :
    /\ sockets[s].readyState = "OPEN"
    /\ LET calls == IF text.json
                    THEN HandleMessage(messageHandlers, text.value)
                    ELSE << >>
       IN last' = [Did("message") EXCEPT
                    !.sock = s,
                    !.msg = IF text.json THEN text.value ELSE NoMessage,
                    !.calls = calls,
                    !.ret = IF OnMessageRaises(~text.json,
                                               HandleMessageRaises(HandlerThrows(calls)))
                            THEN "throws" ELSE "none"]
    /\ UNCHANGED <<sockets, ws, sessionId, reconnectAttempts, isConnecting,
                   autoReconnect, messageHandlers, timers, nthSinceOpen, registered>>

\* ------------------------------------------------------------ VideoService
Min(a, b) == IF a < b THEN a ELSE b
Max(a, b) == IF a > b THEN a ELSE b
\* Math.max(0.1, Math.min(1.0, x)), in tenths
ClampQuality(x) == Max(1, Min(10, x))

\* initialize(videoElement, options): the options are taken when truthy and as
\* given, then the canvas is created with the service's width and height
VideoInitializeWith(given) ==
  \E el \in VideoElements, options \in given :
    LET v == [videoService EXCEPT
                !.videoElement = el,
                !.frameRate = IF Truthy(options, "frameRate") THEN options.frameRate ELSE @,
                !.quality = IF Truthy(options, "quality") THEN options.quality ELSE @,
                !.width = IF Truthy(options, "width") THEN options.width ELSE @,
                !.height = IF Truthy(options, "height") THEN options.height ELSE @]
    IN /\ videoService' = [v EXCEPT !.canvas = [width |-> v.width, height |-> v.height]]
       /\ videoLast' = [VideoDid("initialize") EXCEPT !.arg = options, !.ret = "true"]
       /\ UNCHANGED camera

VideoInitialize == VideoInitializeWith(VideoOptions)
\* initialize(videoElement)
VideoInitializeDefault == VideoInitializeWith({<< >>})

\* startFrameCapture(): clears the timer the service holds and arms a new one
\* of period 1000 / frameRate ms; gives the new timer and the timers that exist
TimerIds == 1..(MaxPendingStarts + 1)
StartFrameCaptureNoClear(v, intervals) ==
  LET id == CHOOSE i \in TimerIds : /\ \A t \in intervals : t.id # i
                                    /\ \A j \in TimerIds : (\A t \in intervals : t.id # j) => i <= j
  IN [frameInterval |-> id,
      intervals |-> intervals \cup {[id |-> id, ms |-> <<1000, v.frameRate>>]}]
StartFrameCapture(v, intervals) ==
  LET kept == {t \in intervals : t.id # v.frameInterval}
      id == CHOOSE i \in TimerIds : /\ \A t \in kept : t.id # i
                                    /\ \A j \in TimerIds : (\A t \in kept : t.id # j) => i <= j
  IN [frameInterval |-> id,
      intervals |-> kept \cup {[id |-> id, ms |-> <<1000, v.frameRate>>]}]

FreeStreams(cam) == {i \in StreamSlots : cam.tracks[i] = "none"}

\* startVideo() up to its await: refused while streaming, else getUserMedia is
\* asked for a camera stream
StartVideo ==
  IF videoService.isStreaming
  THEN /\ videoLast' = [VideoDid("startVideo") EXCEPT !.ret = "false"]
       /\ UNCHANGED <<videoService, camera>>
  ELSE /\ camera.pendingStarts < MaxPendingStarts
       /\ camera' = [camera EXCEPT !.pendingStarts = @ + 1]
       /\ videoLast' = [VideoDid("startVideo") EXCEPT !.ret = "pending"]
       /\ UNCHANGED videoService

\* getUserMedia resolves: the rest of startVideo()
StartVideoGranted ==
  /\ camera.pendingStarts > 0
  /\ FreeStreams(camera) # {}
  /\ LET s == CHOOSE i \in FreeStreams(camera) : \A j \in FreeStreams(camera) : i <= j
         v == [videoService EXCEPT !.stream = s, !.isStreaming = TRUE]
         fc == StartFrameCapture(v, camera.intervals)
     IN /\ videoService' = [v EXCEPT !.frameInterval = fc.frameInterval]
        /\ camera' = [camera EXCEPT
                        !.tracks[s] = "live",
                        !.srcObject = IF videoService.videoElement # Null THEN s ELSE @,
                        !.intervals = fc.intervals,
                        !.pendingStarts = @ - 1]
        /\ videoLast' = [VideoDid("startVideoGranted") EXCEPT !.ret = "true"]

\* getUserMedia rejects: the catch block of startVideo()
StartVideoRejected ==
  /\ camera.pendingStarts > 0
  /\ camera' = [camera EXCEPT !.pendingStarts = @ - 1]
  /\ videoLast' = [VideoDid("startVideoRejected") EXCEPT
                     !.ret = "throws", !.err = (videoService.onVideoError # NoCallback)]
  /\ UNCHANGED videoService

StopTracksNot(tracks, s) == tracks
\* stream.getTracks().forEach(track => track.stop())
StopTracks(tracks, s) == [tracks EXCEPT ![s] = "stopped"]

\* a stopped stream neither the service nor the element refers to is garbage
CollectStreams(tracks, held, shown) ==
  [i \in StreamSlots |->
     IF tracks[i] = "stopped" /\ i # held /\ i # shown THEN "none" ELSE tracks[i]]

\* the tracks of the stream the video element shows
ShownTracks(cam) == IF cam.srcObject = NoStream THEN "none" ELSE cam.tracks[cam.srcObject]

\* a frame timer fires: captureFrame() draws and starts one encode
FrameTick ==
  \E t \in camera.intervals :
    IF /\ videoService.isStreaming
       /\ videoService.videoElement # Null
       /\ videoService.canvas # NoCanvas
    THEN /\ camera.encodes < MaxEncodes
         /\ camera' = [camera EXCEPT
                         !.encodes = @ + 1,
                         !.stale = IF ShownTracks(camera) = "stopped" THEN @ + 1 ELSE @]
         /\ videoLast' = [VideoDid("frameTick") EXCEPT
                            !.ret = "encoding", !.drawnFrom = ShownTracks(camera)]
         /\ UNCHANGED videoService
    ELSE /\ videoLast' = VideoDid("frameTick")
         /\ UNCHANGED <<videoService, camera>>

\* a toBlob encode completes with a blob or with null: the callback of
\* captureFrame(); reading this.canvas.width throws when cleanup() has dropped
\* the canvas meanwhile
ToBlobDone ==
  \E blob \in BOOLEAN, stale \in BOOLEAN :
    /\ camera.encodes > 0
    /\ IF stale THEN camera.stale > 0 ELSE camera.stale < camera.encodes
    /\ camera' = [camera EXCEPT !.encodes = @ - 1,
                                !.stale = IF stale THEN @ - 1 ELSE @]
    /\ videoLast' = [VideoDid("toBlobDone") EXCEPT
         !.frame = IF /\ blob
                      /\ videoService.onVideoFrame # NoCallback
                      /\ videoService.canvas # NoCanvas
                   THEN <<[width |-> videoService.canvas.width,
                           height |-> videoService.canvas.height,
                           frameRate |-> videoService.frameRate,
                           quality |-> videoService.quality]>>
                   ELSE << >>,
         !.ret = IF blob /\ videoService.onVideoFrame # NoCallback
                    /\ videoService.canvas = NoCanvas
                 THEN "throws" ELSE "none",
         !.drawnFrom = IF stale THEN "stopped" ELSE "other"]
    /\ UNCHANGED videoService

\* updateSettings(settings)
VideoUpdateSettings ==
  \E settings \in VideoOptions :
    LET v1 == IF Truthy(settings, "frameRate")
              THEN [videoService EXCEPT !.frameRate = settings.frameRate]
              ELSE videoService
        restart == Truthy(settings, "frameRate") /\ v1.isStreaming
        fc == StartFrameCapture(v1, camera.intervals)
        v2 == IF restart THEN [v1 EXCEPT !.frameInterval = fc.frameInterval] ELSE v1
        v3 == IF Truthy(settings, "quality")
              THEN [v2 EXCEPT !.quality = ClampQuality(settings.quality)]
              ELSE v2
        v4 == IF Truthy(settings, "width")
              THEN [v3 EXCEPT !.width = settings.width,
                              !.canvas = IF @ # NoCanvas
                                         THEN [@ EXCEPT !.width = settings.width] ELSE @]
              ELSE v3
        v5 == IF Truthy(settings, "height")
              THEN [v4 EXCEPT !.height = settings.height,
                              !.canvas = IF @ # NoCanvas
                                         THEN [@ EXCEPT !.height = settings.height] ELSE @]
              ELSE v4
    IN /\ videoService' = v5
       /\ camera' = IF restart THEN [camera EXCEPT !.intervals = fc.intervals] ELSE camera
       /\ videoLast' = [VideoDid("updateSettings") EXCEPT !.arg = settings]

\* setVideoFrameCallback(callback)
SetVideoFrameCallback ==
  \E callback \in {NoCallback, "onFrame"} :
    /\ videoService' = [videoService EXCEPT !.onVideoFrame = callback]
    /\ videoLast' = VideoDid("setVideoFrameCallback")
    /\ UNCHANGED camera

SnapshotReadyAlways(v) == TRUE
\* the test of takeSnapshot(): video element, canvas and context are there
\* (the context is created with the canvas and dropped with it)
SnapshotReady(v) == v.videoElement # Null /\ v.canvas # NoCanvas

\* takeSnapshot() up to the toBlob call: it throws when the service is not
\* initialized, else it draws once and starts one encode
TakeSnapshot ==
  IF ~SnapshotReady(videoService)
  THEN /\ videoLast' = [VideoDid("takeSnapshot") EXCEPT
                          !.ret = "rejects: Video service not initialized"]
       /\ UNCHANGED <<videoService, camera>>
  ELSE /\ camera.snapshots < MaxSnapshots
       /\ camera' = [camera EXCEPT !.snapshots = @ + 1]
       /\ videoLast' = [VideoDid("takeSnapshot") EXCEPT
                          !.ret = "pending", !.drawnFrom = ShownTracks(camera)]
       /\ UNCHANGED videoService

\* the toBlob callback of takeSnapshot(): resolve(blob) or reject
SnapshotDone ==
  \E blob \in BOOLEAN :
    /\ camera.snapshots > 0
    /\ camera' = [camera EXCEPT !.snapshots = @ - 1]
    /\ videoLast' = [VideoDid("snapshotDone") EXCEPT
                       !.ret = IF blob THEN "resolves: blob"
                               ELSE "rejects: Failed to create snapshot"]
    /\ UNCHANGED videoService

VideoDeviceIds == {"cam_2"}

SwitchKeepsTimerNot(v, intervals) == {t \in intervals : t.id # v.frameInterval}
\* the frame timers after the synchronous part of switchVideoDevice, which
\* has no clearInterval
SwitchKeepsTimer(v, intervals) == intervals

\* switchVideoDevice(deviceId) up to its await: the tracks of the held stream
\* are stopped, the stream stays in this.stream and in the element,
\* getUserMedia is asked for the device
SwitchVideoDevice ==
  \E deviceId \in VideoDeviceIds :
    /\ camera.pendingSwitches < MaxPendingVideoSwitches
    /\ camera' = [camera EXCEPT
                    !.tracks = IF videoService.stream # NoStream
                               THEN StopTracks(@, videoService.stream) ELSE @,
                    !.intervals = SwitchKeepsTimer(videoService, @),
                    !.pendingSwitches = @ + 1]
    /\ videoLast' = [VideoDid("switchVideoDevice") EXCEPT !.ret = "pending"]
    /\ UNCHANGED videoService

\* getUserMedia of switchVideoDevice resolves: the new stream is stored and
\* shown in the element; isStreaming and the frame timer are not touched
SwitchVideoGranted ==
  /\ camera.pendingSwitches > 0
  /\ FreeStreams(camera) # {}
  /\ LET s == CHOOSE i \in FreeStreams(camera) : \A j \in FreeStreams(camera) : i <= j
         shown == IF videoService.videoElement # Null THEN s ELSE camera.srcObject
     IN /\ videoService' = [videoService EXCEPT !.stream = s]
        /\ camera' = [camera EXCEPT
                        !.tracks = CollectStreams([@ EXCEPT ![s] = "live"], s, shown),
                        !.srcObject = shown,
                        !.pendingSwitches = @ - 1]
        /\ videoLast' = [VideoDid("switchVideoGranted") EXCEPT !.ret = "true"]

\* getUserMedia of switchVideoDevice rejects: the error is thrown again,
\* onVideoError is not called
SwitchVideoRejected ==
  /\ camera.pendingSwitches > 0
  /\ camera' = [camera EXCEPT !.pendingSwitches = @ - 1]
  /\ videoLast' = [VideoDid("switchVideoRejected") EXCEPT !.ret = "throws"]
  /\ UNCHANGED videoService

\* stopVideo() on service v with camera cam: the service and the camera
\* afterwards
StopVideoOn(v, cam) ==
  IF ~v.isStreaming
  THEN [v |-> v, cam |-> cam, ret |-> "false"]
  ELSE LET tracks == IF v.stream # NoStream THEN StopTracks(cam.tracks, v.stream)
                     ELSE cam.tracks
           shown == IF v.videoElement # Null THEN NoStream ELSE cam.srcObject
       IN [v |-> [v EXCEPT !.isStreaming = FALSE, !.frameInterval = NoTimer,
                           !.stream = NoStream],
           cam |-> [cam EXCEPT
                      !.intervals = {t \in @ : t.id # v.frameInterval},
                      !.tracks = CollectStreams(tracks, NoStream, shown),
                      !.srcObject = shown],
           ret |-> "true"]

\* stopVideo()
StopVideo ==
  LET stopped == StopVideoOn(videoService, camera)
  IN /\ videoService' = stopped.v
     /\ camera' = stopped.cam
     /\ videoLast' = [VideoDid("stopVideo") EXCEPT !.ret = stopped.ret]

\* cleanup(): stopVideo(), then the canvas and its context and the video
\* element are dropped
VideoCleanup ==
  LET stopped == StopVideoOn(videoService, camera)
  IN /\ videoService' = [stopped.v EXCEPT !.canvas = NoCanvas, !.videoElement = Null]
     /\ camera' = stopped.cam
     /\ videoLast' = [VideoDid("cleanup") EXCEPT !.ret = "done"]

\* ------------------------------------------------------------ AudioService
RECURSIVE SumSq(_)
SumSq(q) == IF q = << >> THEN 0 ELSE Head(q) * Head(q) + SumSq(Tail(q))

DetectVoiceActivityInclusive(audioData, vadThreshold) ==
  IF Len(audioData) = 0 THEN FALSE
  ELSE IF vadThreshold < 0 THEN TRUE
  ELSE SumSq(audioData) >= vadThreshold * vadThreshold * Len(audioData)
\* detectVoiceActivity(audioData): rms = sqrt(sum / length) > vadThreshold. For
\* an empty array sum / length is NaN and NaN > t is false; rms is never
\* negative, so it exceeds a negative threshold; otherwise the comparison is
\* made on the squares
DetectVoiceActivity(audioData, vadThreshold) ==
  IF Len(audioData) = 0 THEN FALSE
  ELSE IF vadThreshold < 0 THEN TRUE
  ELSE SumSq(audioData) > vadThreshold * vadThreshold * Len(audioData)

\* the audio constraints initialize() passes to getUserMedia
AudioConstraints(a) ==
  [sampleRate |-> a.sampleRate, channelCount |-> a.channels,
   echoCancellation |-> a.echoCancellation, noiseSuppression |-> a.noiseSuppression,
   autoGainControl |-> Bool(TRUE)]

\* getSettings()
GetSettings(a) ==
  [sample_rate |-> a.sampleRate, channels |-> a.channels,
   vad_threshold |-> a.vadThreshold, echo_cancellation |-> a.echoCancellation,
   noise_suppression |-> a.noiseSuppression]

\* startAudioAnalysis(): clears the timer the service holds and arms a new
\* one of 50 ms; gives the new timer and the timers that exist
AudioTimerIds == 1..(MaxPendingMics + 1)
StartAudioAnalysis(a, intervals) ==
  LET kept == {t \in intervals : t.id # a.recordingInterval}
      id == CHOOSE i \in AudioTimerIds : /\ \A t \in kept : t.id # i
                                         /\ \A j \in AudioTimerIds : (\A t \in kept : t.id # j) => i <= j
  IN [recordingInterval |-> id, intervals |-> kept \cup {[id |-> id, ms |-> 50]}]

FreeRecorders(m) == {i \in RecorderSlots : m.recorders[i].state = "none"}
FreeMicStreams(m) == {i \in RecorderSlots : m.tracks[i] = "none"}
\* an inactive recorder the service does not hold is garbage
CollectRecorders(recorders, held) ==
  [i \in RecorderSlots |->
     IF recorders[i].state = "inactive" /\ i # held THEN NoRecorderYet ELSE recorders[i]]

\* a stream whose tracks have stopped and that neither the service, its source
\* node nor a recorder refers to is garbage
CollectMicStreams(tracks, recorders, a) ==
  [i \in RecorderSlots |->
     IF /\ tracks[i] = "stopped"
        /\ i \notin {a.stream, a.microphone}
        /\ \A r \in RecorderSlots : recorders[r].stream # i
     THEN "none" ELSE tracks[i]]

\* what new MediaRecorder(...) and its start(100) can do
RecorderOutcomes == {"ok", "constructorThrows", "startThrows"}

\* the try block of startRecording(), run on service a in browser m, and its
\* catch block
BeginRecording(a, m, op) ==
  \E outcome \in RecorderOutcomes :
    IF outcome = "constructorThrows"
    THEN /\ audioService' = [a EXCEPT !.isRecording = FALSE]
         /\ mic' = m
         /\ audioLast' = [AudioDid(op) EXCEPT !.ret = "throws"]
    ELSE /\ FreeRecorders(m) # {}
         /\ LET r == CHOOSE i \in FreeRecorders(m) : \A j \in FreeRecorders(m) : i <= j
                aa == StartAudioAnalysis(a, m.intervals)
            IN IF outcome = "startThrows"
               THEN /\ audioService' = [a EXCEPT !.isRecording = FALSE, !.mediaRecorder = r]
                    /\ mic' = [m EXCEPT !.recorders = CollectRecorders(
                                 [@ EXCEPT ![r] = [state |-> "inactive", stream |-> a.stream]], r)]
                    /\ audioLast' = [AudioDid(op) EXCEPT !.ret = "throws"]
               ELSE /\ audioService' = [a EXCEPT !.isRecording = TRUE, !.mediaRecorder = r,
                                                 !.recordingInterval = aa.recordingInterval]
                    /\ mic' = [m EXCEPT !.recorders = CollectRecorders(
                                 [@ EXCEPT ![r] = [state |-> "recording", stream |-> a.stream]], r),
                                        !.intervals = aa.intervals]
                    /\ audioLast' = [AudioDid(op) EXCEPT !.ret = "true"]

\* startRecording() up to its first await: refused while recording; without a
\* stream initialize() asks getUserMedia for the microphone; with a stream the
\* recorder is created at once
StartRecordingWithin(limit) ==
  IF audioService.isRecording
  THEN /\ audioLast' = [AudioDid("startRecording") EXCEPT !.ret = "false"]
       /\ UNCHANGED <<audioService, mic>>
  ELSE IF audioService.stream = NoStream
  THEN /\ mic.pendingStarts < limit
       /\ mic' = [mic EXCEPT !.pendingStarts = @ + 1]
       /\ audioLast' = [AudioDid("startRecording") EXCEPT
                          !.ret = "pending", !.request = <<AudioConstraints(audioService)>>]
       /\ UNCHANGED audioService
  ELSE BeginRecording(audioService, mic, "startRecording")

\* getUserMedia resolves: the rest of initialize(), then the rest of
\* startRecording()
MicGranted ==
  /\ mic.pendingStarts > 0
  /\ FreeMicStreams(mic) # {}
  /\ LET s == CHOOSE i \in FreeMicStreams(mic) : \A j \in FreeMicStreams(mic) : i <= j
     IN BeginRecording(
          [audioService EXCEPT !.stream = s, !.audioContext = TRUE,
                               !.analyser = TRUE, !.microphone = s],
          [mic EXCEPT !.tracks[s] = "live", !.pendingStarts = @ - 1],
          "micGranted")

\* getUserMedia rejects: initialize() and startRecording() throw
MicRejected ==
  /\ mic.pendingStarts > 0
  /\ mic' = [mic EXCEPT !.pendingStarts = @ - 1]
  /\ audioLast' = [AudioDid("micRejected") EXCEPT !.ret = "throws"]
  /\ UNCHANGED audioService

ClearRecordingIntervalNot(a, intervals) == intervals
\* clearInterval(this.recordingInterval) of stopRecording()
ClearRecordingInterval(a, intervals) == {t \in intervals : t.id # a.recordingInterval}

\* stopRecording() on service a in browser m: the service, the browser and
\* the outcome afterwards. stop() of an inactive recorder throws and the catch
\* block throws again; a stopped recorder still delivers the data it holds
StopRecordingOn(a, m) ==
  IF ~a.isRecording
  THEN [a |-> a, m |-> m, ret |-> "false"]
  ELSE IF a.mediaRecorder # NoRecorder
          /\ m.recorders[a.mediaRecorder].state \in {"inactive", "flushing"}
  THEN [a |-> [a EXCEPT !.isRecording = FALSE], m |-> m, ret |-> "throws"]
  ELSE [a |-> [a EXCEPT !.isRecording = FALSE,
                        !.mediaRecorder = NoRecorder,
                        !.recordingInterval = NoTimer],
        m |-> [m EXCEPT
                 !.recorders = IF a.mediaRecorder # NoRecorder
                               THEN [@ EXCEPT ![a.mediaRecorder].state = "flushing"]
                               ELSE @,
                 !.intervals = IF a.recordingInterval # NoTimer
                               THEN ClearRecordingInterval(a, @)
                               ELSE @],
        ret |-> "true"]

\* stopRecording()
StopRecording ==
  LET stopped == StopRecordingOn(audioService, mic)
  IN /\ audioService' = stopped.a
     /\ mic' = stopped.m
     /\ audioLast' = [AudioDid("stopRecording") EXCEPT !.ret = stopped.ret]

\* a recorder fires dataavailable (every 100 ms while recording, once more
\* after it stopped): ondataavailable starts processAudioChunk for a blob that
\* is not empty; a stopped recorder is inactive afterwards. The chunk remembers whether it is the last data of a stopped
\* recorder ("flush"), or comes from a running recorder while stopRecording()
\* has dropped the service's recorder and nothing was started since
\* ("stopped"), or from a running recorder otherwise ("running")
RecorderDataOf(blobs) ==
  \E r \in RecorderSlots, blob \in blobs :
    /\ mic.recorders[r].state \in {"recording", "flushing"}
    /\ LET emitted == IF mic.recorders[r].state = "flushing" THEN "flush"
                      ELSE IF audioService.isRecording
                              \/ audioService.mediaRecorder # NoRecorder
                      THEN "running" ELSE "stopped"
           chunk == [decodes |-> blob.decodes, samples |-> blob.samples, emitted |-> emitted]
           recorders == IF mic.recorders[r].state = "flushing"
                        THEN CollectRecorders(
                               [mic.recorders EXCEPT ![r].state = "inactive"],
                               audioService.mediaRecorder)
                        ELSE mic.recorders
       IN IF blob.size > 0
          THEN /\ BagCardinality(mic.chunks) < MaxChunks
               /\ mic' = [mic EXCEPT !.recorders = recorders,
                                     !.tracks = CollectMicStreams(@, recorders, audioService),
                                     !.chunks = @ (+) SetToBag({chunk})]
               /\ audioLast' = [AudioDid("dataavailable") EXCEPT !.chunk = chunk]
          ELSE /\ mic' = [mic EXCEPT !.recorders = recorders,
                                     !.tracks = CollectMicStreams(@, recorders, audioService)]
               /\ audioLast' = AudioDid("dataavailable")
    /\ UNCHANGED audioService

\* the awaits of processAudioChunk() are over: a blob that does not decode (or
\* a missing audio context) ends in the catch block, else the samples are
\* checked and handed to onAudioData
ChunkProcessed ==
  \E chunk \in BagToSet(mic.chunks) :
    LET a == audioService
        detected == /\ chunk.decodes
                    /\ a.audioContext
                    /\ DetectVoiceActivity(chunk.samples, a.vadThreshold)
    IN /\ mic' = [mic EXCEPT !.chunks = @ (-) SetToBag({chunk})]
       /\ audioLast' = [AudioDid("processAudioChunk") EXCEPT
            !.chunk = chunk,
            !.threshold = a.vadThreshold,
            !.data = IF detected /\ a.onAudioData # NoCallback
                     THEN <<[audioData |-> chunk.samples, sample_rate |-> a.sampleRate,
                             channels |-> a.channels]>>
                     ELSE << >>]
       /\ UNCHANGED audioService

VolumeExceedsInclusive(averageVolume, vadThreshold) ==
  averageVolume * 10 >= vadThreshold * 255
\* averageVolume > this.vadThreshold * 255 of analyzeAudio(), the threshold in
\* tenths
VolumeExceeds(averageVolume, vadThreshold) == averageVolume * 10 > vadThreshold * 255

\* a polling timer fires: analyzeAudio() while recording with an analyser
PollTick ==
  \E t \in mic.intervals, averageVolume \in VolumeInputs :
    LET a == audioService
    IN /\ audioLast' =
            IF a.isRecording /\ a.analyser
            THEN [AudioDid("pollTick") EXCEPT
                    !.volume = averageVolume,
                    !.threshold = a.vadThreshold,
                    !.transcription =
                       IF VolumeExceeds(averageVolume, a.vadThreshold)
                          /\ a.onTranscription # NoCallback
                       THEN <<[volume |-> <<averageVolume, 255>>]>>
                       ELSE << >>]
            ELSE AudioDid("pollTick")
       /\ UNCHANGED <<audioService, mic>>

AssignedOrCleared(settings, f, old) == Member(settings, f)
\* if (settings.f !== undefined) this.field = settings.f
Assigned(settings, f, old) ==
  IF Member(settings, f) # Undefined THEN Member(settings, f) ELSE old

\* updateSettings(settings)
AudioUpdateSettings ==
  \E settings \in AudioSettings :
    /\ audioService' = [audioService EXCEPT
         !.sampleRate = IF Member(settings, "sample_rate") \notin {Undefined, Num(0)}
                        THEN settings.sample_rate.num ELSE @,
         !.vadThreshold = IF Member(settings, "vad_threshold") # Undefined
                          THEN settings.vad_threshold.num ELSE @,
         !.echoCancellation = Assigned(settings, "echo_cancellation", @),
         !.noiseSuppression = IF Member(settings, "noise_suppression") # Undefined
                              THEN Member(settings, "noiseSuppression") ELSE @]
    /\ audioLast' = [AudioDid("updateSettings") EXCEPT !.arg = settings]
    /\ UNCHANGED mic

\* setAudioDataCallback(callback)
SetAudioDataCallback ==
  \E callback \in {NoCallback, "onData"} :
    /\ audioService' = [audioService EXCEPT !.onAudioData = callback]
    /\ audioLast' = AudioDid("setAudioDataCallback")
    /\ UNCHANGED mic

\* setTranscriptionCallback(callback)
SetTranscriptionCallback ==
  \E callback \in {NoCallback, "onVolume"} :
    /\ audioService' = [audioService EXCEPT !.onTranscription = callback]
    /\ audioLast' = AudioDid("setTranscriptionCallback")
    /\ UNCHANGED mic

\* stream.getTracks().forEach(track => track.stop()) on stream s: its tracks
\* end, and a recorder whose stream has no live track left stops by itself and
\* delivers the data it holds
StopMicTracks(m, s) ==
  [m EXCEPT !.tracks[s] = "stopped",
            !.recorders = [i \in RecorderSlots |->
                             IF @[i].stream = s /\ @[i].state = "recording"
                             THEN [@[i] EXCEPT !.state = "flushing"]
                             ELSE @[i]]]

AudioDeviceIds == {"mic_2"}

\* switchAudioDevice(deviceId) up to its await: the tracks of the held stream
\* are stopped, the stream stays in this.stream, getUserMedia is asked for the
\* device
SwitchAudioDevice ==
  \E deviceId \in AudioDeviceIds :
    /\ mic.pendingSwitches < MaxPendingSwitches
    /\ mic' = [(IF audioService.stream # NoStream
                THEN StopMicTracks(mic, audioService.stream)
                ELSE mic) EXCEPT !.pendingSwitches = @ + 1]
    /\ audioLast' = [AudioDid("switchAudioDevice") EXCEPT
                       !.arg = deviceId, !.ret = "pending",
                       !.request = <<AudioConstraints(audioService)>>]
    /\ UNCHANGED audioService

\* getUserMedia of switchAudioDevice resolves: the new stream is stored and,
\* with an audio context and a source node, the analyser is fed from it; the
\* recorder is not touched
SwitchAudioGranted ==
  /\ mic.pendingSwitches > 0
  /\ FreeMicStreams(mic) # {}
  /\ LET s == CHOOSE i \in FreeMicStreams(mic) : \A j \in FreeMicStreams(mic) : i <= j
         a == [audioService EXCEPT
                 !.stream = s,
                 !.microphone = IF audioService.audioContext /\ @ # NoStream THEN s ELSE @]
     IN /\ audioService' = a
        /\ mic' = [mic EXCEPT
                     !.tracks = CollectMicStreams([@ EXCEPT ![s] = "live"], mic.recorders, a),
                     !.pendingSwitches = @ - 1]
        /\ audioLast' = [AudioDid("switchGranted") EXCEPT !.ret = "true"]

\* getUserMedia of switchAudioDevice rejects: the error is thrown again,
\* this.stream still is the stream whose tracks were stopped
SwitchAudioRejected ==
  /\ mic.pendingSwitches > 0
  /\ mic' = [mic EXCEPT !.pendingSwitches = @ - 1]
  /\ audioLast' = [AudioDid("switchRejected") EXCEPT !.ret = "throws"]
  /\ UNCHANGED audioService

\* cleanup(): stopRecording(), then the held stream's tracks are stopped and
\* stream, audio context, source node and analyser are dropped; when
\* stopRecording() throws the catch block ends cleanup there
AudioCleanup ==
  LET stopped == StopRecordingOn(audioService, mic)
  IN IF stopped.ret = "throws"
     THEN /\ audioService' = stopped.a
          /\ mic' = stopped.m
          /\ audioLast' = [AudioDid("cleanup") EXCEPT !.ret = "caught"]
     ELSE LET a == [stopped.a EXCEPT !.stream = NoStream, !.audioContext = FALSE,
                                     !.microphone = NoStream, !.analyser = FALSE]
              m == IF stopped.a.stream # NoStream
                   THEN StopMicTracks(stopped.m, stopped.a.stream)
                   ELSE stopped.m
          IN /\ audioService' = a
             /\ mic' = [m EXCEPT !.tracks = CollectMicStreams(@, m.recorders, a)]
             /\ audioLast' = [AudioDid("cleanup") EXCEPT !.ret = "done"]

\* ------------------------------------------------------------- App (mute)
InFlight == Len(backend.toServer) + Len(backend.toClient)

\* connectWebSocket(), called by the effects when there is no connection and
\* no socket; a socket that failed has closed before the 2 s reconnect timer runs
ConnectWebSocket ==
  /\ ~websocketConnected
  /\ websocketRef = NoSocket
  /\ backend.readyState = "NONE"
  /\ websocketRef' = AppSocket
  /\ backend' = [backend EXCEPT !.readyState = "CONNECTING"]
  /\ muteLast' = MuteDid("connectWebSocket")
  /\ UNCHANGED <<isMuted, websocketConnected>>

\* ws.onopen: the App is connected and asks for the status
AppSocketOpen ==
  /\ backend.readyState = "CONNECTING"
  /\ InFlight < MaxInFlight
  /\ websocketConnected' = TRUE
  /\ backend' = [backend EXCEPT !.readyState = "OPEN",
                                !.toServer = Append(@, "get_status")]
  /\ muteLast' = [MuteDid("onopen") EXCEPT !.sent = <<"get_status">>]
  /\ UNCHANGED <<isMuted, websocketRef>>

\* ws.onerror: the socket fails, what was in flight is lost
AppSocketError ==
  /\ backend.readyState \in {"CONNECTING", "OPEN"}
  /\ websocketConnected' = FALSE
  /\ websocketRef' = NoSocket
  /\ backend' = [backend EXCEPT !.readyState = "CLOSING",
                                !.toServer = << >>, !.toClient = << >>]
  /\ muteLast' = MuteDid("onerror")
  /\ UNCHANGED isMuted

\* ws.onclose: the socket is gone, what was in flight is lost
AppSocketClose ==
  /\ backend.readyState \in {"CONNECTING", "OPEN", "CLOSING"}
  /\ websocketConnected' = FALSE
  /\ websocketRef' = NoSocket
  /\ backend' = [backend EXCEPT !.readyState = "NONE",
                                !.toServer = << >>, !.toClient = << >>]
  /\ muteLast' = MuteDid("onclose")
  /\ UNCHANGED isMuted

\* sendWebSocketMessage(type): the frames handed to the socket, none unless
\* the App holds an open socket
SendWebSocketMessage(type) ==
  IF websocketRef # NoSocket /\ backend.readyState = "OPEN" THEN <<type>> ELSE << >>

\* a click on the mute button (enabled while websocketConnected): toggleMute()
ToggleMute ==
  /\ websocketConnected
  /\ InFlight < MaxInFlight
  /\ LET sent == SendWebSocketMessage(IF isMuted THEN "unmute" ELSE "mute")
     IN /\ backend' = [backend EXCEPT !.toServer = @ \o sent]
        /\ muteLast' = [MuteDid("toggleMute") EXCEPT !.sent = sent]
  /\ isMuted' = ~isMuted
  /\ UNCHANGED <<websocketConnected, websocketRef>>

\* the server takes the next frame: a mute or unmute command succeeds and
\* sets its state, or fails and leaves it; it answers each frame
BackendHandles ==
  \E ok \in BOOLEAN :
    /\ backend.toServer # << >>
    /\ LET type == Head(backend.toServer)
           status == IF ok THEN "success" ELSE "error"
           reply == IF type = "get_status" THEN [type |-> "status", status |-> "success"]
                    ELSE IF type = "mute" THEN [type |-> "mute_response", status |-> status]
                    ELSE [type |-> "unmute_response", status |-> status]
       IN /\ backend' = [backend EXCEPT
                           !.toServer = Tail(@),
                           !.toClient = Append(@, reply),
                           !.muted = IF ok /\ type = "mute" THEN TRUE
                                     ELSE IF ok /\ type = "unmute" THEN FALSE ELSE @]
          /\ muteLast' = [MuteDid("backend") EXCEPT !.message = reply]
    /\ UNCHANGED <<isMuted, websocketConnected, websocketRef>>

\* handleWebSocketMessage(message): the mute state after the message
HandleWebSocketMessage(muted, message) ==
  IF message.type = "mute_response" /\ message.status # "success" THEN FALSE
  ELSE IF message.type = "unmute_response" /\ message.status # "success" THEN TRUE
  ELSE muted

\* ws.onmessage
AppSocketMessage ==
  /\ backend.toClient # << >>
  /\ isMuted' = HandleWebSocketMessage(isMuted, Head(backend.toClient))
  /\ backend' = [backend EXCEPT !.toClient = Tail(@)]
  /\ muteLast' = [MuteDid("onmessage") EXCEPT !.message = Head(backend.toClient)]
  /\ UNCHANGED <<websocketConnected, websocketRef>>

\* ------------------------------------------------- App (socket effects)
\* React after a handler set state: a render when gradioLoaded or
\* websocketConnected differs from the last render (setting a state to the
\* value it has renders nothing), and then the effects of that render are due
Rendered(loaded, connected) ==
  IF <<loaded, connected>> # react.deps
  THEN [deps |-> <<loaded, connected>>, prev |-> react.deps, due |-> TRUE]
  ELSE react

\* React runs the effects of a render before it renders again
MayRender(loaded, connected) == <<loaded, connected>> # react.deps => ~react.due

\* the iframe's onLoad: setGradioLoaded(true)
IframeOnLoad ==
  /\ ~gradioLoaded
  /\ MayRender(TRUE, websocketConnected)
  /\ gradioLoaded' = TRUE
  /\ react' = Rendered(TRUE, websocketConnected)
  /\ muteLast' = MuteDid("onLoad")
  /\ UNCHANGED <<isMuted, websocketConnected, websocketRef, backend, reconnectTimer>>

\* the test of the auto-reconnect effect, on the values of its render and
\* the ref as it is now
ArmsReconnect(loaded, connected, ref) == loaded /\ ~connected /\ ref = NoSocket

\* the effects of the last render: the cleanups of the effects whose
\* dependencies changed (the connect effect closes the socket the ref holds,
\* the auto-reconnect effect clears its timer), then the connect effect
\* (dependency gradioLoaded), then the auto-reconnect effect (dependencies
\* gradioLoaded and websocketConnected)
RunEffects ==
  LET loaded == react.deps[1]
      connected == react.deps[2]
      loadedChanged == react.deps[1] # react.prev[1]
      closes == loadedChanged /\ websocketRef # NoSocket
      ref1 == IF closes THEN NoSocket ELSE websocketRef
      state1 == IF closes /\ backend.readyState \in {"CONNECTING", "OPEN"}
                THEN "CLOSING" ELSE backend.readyState
      connects == loadedChanged /\ loaded /\ ~connected /\ ref1 = NoSocket
      ref2 == IF connects THEN AppSocket ELSE ref1
      state2 == IF connects THEN "CONNECTING" ELSE state1
  IN /\ react.due
     /\ connects => state1 = "NONE"
     /\ websocketRef' = ref2
     /\ backend' = [backend EXCEPT !.readyState = state2]
     /\ reconnectTimer' = ArmsReconnect(loaded, connected, ref2)
     /\ react' = [react EXCEPT !.due = FALSE]
     /\ muteLast' = MuteDid("effects")
     /\ UNCHANGED <<isMuted, websocketConnected, gradioLoaded>>

\* the setTimeout callback of the auto-reconnect effect, 2 s after the effect
\* ran: connectWebSocket(); a socket that failed has closed by then
ReconnectTimerFires ==
  /\ reconnectTimer
  /\ backend.readyState = "NONE"
  /\ reconnectTimer' = FALSE
  /\ IF websocketRef # NoSocket /\ backend.readyState = "OPEN"
     THEN UNCHANGED <<websocketRef, backend>>
     ELSE /\ websocketRef' = AppSocket
          /\ backend' = [backend EXCEPT !.readyState = "CONNECTING"]
  /\ muteLast' = MuteDid("reconnectTimer")
  /\ UNCHANGED <<isMuted, websocketConnected, gradioLoaded, react>>

\* the socket's handlers, each followed by the render its setWebsocketConnected asks for
AppSocketOpenRendered ==
  /\ MayRender(gradioLoaded, TRUE)
  /\ AppSocketOpen
  /\ react' = Rendered(gradioLoaded, TRUE)
  /\ UNCHANGED <<gradioLoaded, reconnectTimer>>

AppSocketErrorRendered ==
  /\ MayRender(gradioLoaded, FALSE)
  /\ AppSocketError
  /\ react' = Rendered(gradioLoaded, FALSE)
  /\ UNCHANGED <<gradioLoaded, reconnectTimer>>

AppSocketCloseRendered ==
  /\ MayRender(gradioLoaded, FALSE)
  /\ AppSocketClose
  /\ react' = Rendered(gradioLoaded, FALSE)
  /\ UNCHANGED <<gradioLoaded, reconnectTimer>>

\* ---------------------------------------------------- App (notifications)
\* removeNotification(id): prev.filter(n => n !== id) keeps every entry that
\* is not strictly equal to the id; an entry is a notification object
RemoveNotification(prev, id) == SelectSeq(prev, LAMBDA n : n # id)

\* a test that skips success notifications only
SkipsNotificationSuccessOnly(type) == type = "success"

\* if (type !== 'error') return
SkipsNotification(type) == type # "error"

\* addNotification(message, type, 8000), called by step did
AddNotificationOf(message, type, did) ==
  IF SkipsNotification(type)
  THEN /\ noteLast' = [did EXCEPT !.type = type]
       /\ UNCHANGED <<notifications, timeouts, dateNow>>
  ELSE LET id == Num(dateNow)
           notification == [id |-> id, message |-> message, type |-> type,
                            timestamp |-> dateNow]
       IN /\ Len(notifications) < MaxNotifications
          /\ notifications' = Append(notifications, notification)
          /\ timeouts' = timeouts (+) SetToBag({[id |-> id, ms |-> 8000]})
          /\ noteLast' = [did EXCEPT !.id = id, !.type = type]
          /\ UNCHANGED dateNow

\* addNotification(message, type) with the default duration of 8000 ms
AddNotification ==
  \E message \in NotificationMessages, type \in NotificationTypes :
    AddNotificationOf(message, type, NoteDid("addNotification"))

\* a millisecond passes
ClockTick ==
  /\ dateNow < MaxNow
  /\ dateNow' = dateNow + 1
  /\ noteLast' = NoteDid("clock")
  /\ UNCHANGED <<notifications, timeouts>>

\* the timer of a notification fires after its 8 s: removeNotification(id)
TimeoutFires ==
  \E t \in BagToSet(timeouts) :
    /\ timeouts' = timeouts (-) SetToBag({t})
    /\ notifications' = RemoveNotification(notifications, t.id)
    /\ noteLast' = [NoteDid("timeout") EXCEPT !.id = t.id]
    /\ UNCHANGED dateNow

\* a click on a notification shown by NotificationSystem:
\* removeNotification(notification.id)
ClickNotification ==
  \E i \in DOMAIN notifications :
    /\ notifications' = RemoveNotification(notifications, notifications[i].id)
    /\ noteLast' = [NoteDid("click") EXCEPT !.id = notifications[i].id]
    /\ UNCHANGED <<timeouts, dateNow>>

\* ------------------------------------------------------- error handler
\* ErrorMessages: per error type the canned string of each code
ErrorMessages ==
  [WebSocket |->
     [CONNECTION_FAILED |-> "Connection failed - We're still developing the real-time features!",
      MESSAGE_PARSE |-> "Message error - We're still developing the data processing!",
      DISCONNECTED |-> "Disconnected - We're still developing the connection stability!"],
   API |->
     [REQUEST_FAILED |-> "API error - We're still developing the backend integration!",
      TIMEOUT |-> "Request timeout - We're still developing the server performance!",
      UNAUTHORIZED |-> "Access denied - We're still developing the authentication!"],
   Recording |->
     [START_FAILED |-> "Recording failed - We're still developing the audio capture!",
      STOP_FAILED |-> "Stop failed - We're still developing the audio control!",
      PERMISSION_DENIED |-> "Microphone access denied - We're still developing the permissions!"],
   Video |->
     [START_FAILED |-> "Video failed - We're still developing the camera integration!",
      STOP_FAILED |-> "Video stop failed - We're still developing the video control!",
      PERMISSION_DENIED |-> "Camera access denied - We're still developing the permissions!"],
   Audio |->
     [SETTINGS_FAILED |-> "Audio settings failed - We're still developing the audio processing!",
      DEVICE_NOT_FOUND |-> "Audio device not found - We're still developing the device detection!"],
   General |->
     [UNKNOWN |-> "Unknown error - We're still developing this feature!",
      NETWORK |-> "Network error - We're still developing the connection handling!",
      TIMEOUT |-> "Operation timeout - We're still developing the performance!"]]

\* getErrorMessage(errorType, errorCode, fallbackMessage): the table entry
\* when the type has one for the code, else fallbackMessage ||
\* ErrorMessages[ErrorTypes.GENERAL].UNKNOWN (null and '' are falsy)
GetErrorMessageWith(errorType, errorCode, fallbackMessage) ==
  IF errorType \in DOMAIN ErrorMessages /\ errorCode \in DOMAIN ErrorMessages[errorType]
  THEN Str(ErrorMessages[errorType][errorCode])
  ELSE IF fallbackMessage \notin {Null, ""} THEN Str(fallbackMessage)
  ELSE Str(ErrorMessages["General"]["UNKNOWN"])

\* getErrorMessage(errorType, errorCode) without a fallback message
GetErrorMessage(errorType, errorCode) ==
  GetErrorMessageWith(errorType, errorCode, Null).str

\* an error object: its name and which of the words handleError looks for its
\* message includes
ErrorNames == {"Error", "TypeError", "NetworkError", "NotAllowedError"}
ErrorWords == {"timeout", "permission", "connection"}
Errors == [name : ErrorNames, includes : SUBSET ErrorWords]

\* a handleError that looks at the message before the name
HandleErrorWordsFirst(error, context, errorType) ==
  LET errorCode == IF "timeout" \in error.includes THEN "TIMEOUT"
                   ELSE IF "permission" \in error.includes THEN "PERMISSION_DENIED"
                   ELSE IF "connection" \in error.includes THEN "CONNECTION_FAILED"
                   ELSE IF error.name = "TypeError" THEN "TYPE_ERROR"
                   ELSE IF error.name = "NetworkError" THEN "NETWORK"
                   ELSE "UNKNOWN"
  IN [userMessage |-> GetErrorMessage(errorType, errorCode), context |-> context,
      errorType |-> errorType, errorCode |-> errorCode]

\* handleError(error, context, errorType): the error code is chosen from the
\* error's name, then from the first word its message includes
HandleError(error, context, errorType) ==
  LET errorCode == IF error.name = "TypeError" THEN "TYPE_ERROR"
                   ELSE IF error.name = "NetworkError" THEN "NETWORK"
                   ELSE IF "timeout" \in error.includes THEN "TIMEOUT"
                   ELSE IF "permission" \in error.includes THEN "PERMISSION_DENIED"
                   ELSE IF "connection" \in error.includes THEN "CONNECTION_FAILED"
                   ELSE "UNKNOWN"
  IN [userMessage |-> GetErrorMessage(errorType, errorCode), context |-> context,
      errorType |-> errorType, errorCode |-> errorCode]

\* the arguments callers pass: the error types and one that is none, the
\* codes of the tables and of handleError and one that is none, the fallbacks
ErrorTypes == {"WebSocket", "API", "Recording", "Video", "Audio", "General"}
ErrorTypeInputs == ErrorTypes \cup {"Storage"}
ErrorCodeInputs ==
  UNION {DOMAIN ErrorMessages[type] : type \in ErrorTypes} \cup {"TYPE_ERROR", "QUOTA"}
FallbackInputs == {Null, "", "Please try again"}

\* a call of handleError(error, context, errorType)
HandleErrorCall ==
  \E error \in Errors, errorType \in ErrorTypeInputs :
    LET errorInfo == HandleError(error, "Operation", errorType)
    IN /\ noteLast' = [NoteDid("handleError") EXCEPT
                         !.error = error, !.errorType = errorType,
                         !.context = errorInfo.context,
                         !.errorCode = errorInfo.errorCode,
                         !.message = Str(errorInfo.userMessage)]
       /\ UNCHANGED <<notifications, timeouts, dateNow>>

\* a call of getErrorMessage(errorType, errorCode, fallbackMessage)
GetErrorMessageCall ==
  \E errorType \in ErrorTypeInputs, errorCode \in ErrorCodeInputs,
     fallbackMessage \in FallbackInputs :
    /\ noteLast' = [NoteDid("getErrorMessage") EXCEPT
                      !.errorType = errorType, !.errorCode = errorCode,
                      !.fallback = fallbackMessage,
                      !.message = GetErrorMessageWith(errorType, errorCode, fallbackMessage)]
    /\ UNCHANGED <<notifications, timeouts, dateNow>>

\* the call sites of handleAppError for the connection, recording and video:
\* the 'error' connection status passes new Error('WebSocket connection
\* error'), the others pass the error they caught
AppErrors ==
  {[context |-> "WebSocket connection",
    error |-> [name |-> "Error", includes |-> {"connection"}]]}
  \cup {[context |-> c, error |-> e] :
          c \in {"Recording start", "Recording stop", "Video control"}, e \in Errors}

\* handleAppError(error, context): handleError with ErrorTypes.GENERAL, then
\* addNotification(errorInfo.userMessage, 'error', 8000)
HandleAppErrorOf(error, context) ==
  LET errorInfo == HandleError(error, context, "General")
  IN AddNotificationOf(errorInfo.userMessage, "error",
       [NoteDid("handleAppError") EXCEPT !.context = context,
                                         !.errorCode = errorInfo.errorCode,
                                         !.message = errorInfo.userMessage])

HandleAppError == \E site \in AppErrors : HandleAppErrorOf(site.error, site.context)

\* ------------------------------------------------ App (record button)
\* new Error('Failed to start recording'), new Error('Failed to stop
\* recording') and the exceptions of the recorder and of getUserMedia as
\* handleError sees them: no name and no word it looks for
PlainError == [name |-> "Error", includes |-> {}]

\* websocketService.startRecording() / stopRecording(): sendControl(command)
SendControl(command) ==
  /\ \E now \in IsoTimes :
       DoSend(sockets, ws, sessionId,
              [type |-> Str("control"),
               data |-> Obj([command |-> command, timestamp |-> now])],
              [Did("sendControl") EXCEPT !.arg = command])
  /\ UNCHANGED <<sockets, ws, sessionId, reconnectAttempts, isConnecting,
                 autoReconnect, messageHandlers, timers, nthSinceOpen, registered>>

\* the App's isRecording after `await audioService.startRecording()` gave
\* ret: true on success, false from the catch block otherwise
StartedFlag(ret) == ret = "true"

\* the App's startRecording() after `await audioService.startRecording()`
\* settled with ret: success sets isRecording and sends the control command,
\* a false result or an exception goes to handleAppError and clears isRecording
StartedRecording(ret) ==
  /\ appState' = [appState EXCEPT !.isRecording = StartedFlag(ret), !.isLoading = FALSE]
  /\ IF ret = "true"
     THEN SendControl("start_recording") /\ UNCHANGED noteVars
     ELSE HandleAppErrorOf(PlainError, "Recording start") /\ UNCHANGED wsVars

\* a click on the record button, which is disabled while the last render
\* had isLoading: toggleRecording() with the isRecording of that render.
\* stopRecording() of the App is over within the click; startRecording() is
\* too unless the AudioService has to ask for the microphone
ToggleRecording ==
  /\ ~appState.shown.isLoading
  /\ IF appState.shown.isRecording
     THEN /\ StopRecording
          /\ appState' = [appState EXCEPT
                            !.isRecording = IF audioLast'.ret = "true" THEN FALSE ELSE @,
                            !.isLoading = FALSE]
          /\ IF audioLast'.ret = "true"
             THEN SendControl("stop_recording") /\ UNCHANGED noteVars
             ELSE HandleAppErrorOf(PlainError, "Recording stop") /\ UNCHANGED wsVars
     ELSE /\ StartRecordingWithin(MaxPendingMics)
          /\ IF audioLast'.ret = "pending"
             THEN /\ appState' = [appState EXCEPT !.isLoading = TRUE]
                  /\ UNCHANGED <<wsVars, noteVars>>
             ELSE StartedRecording(audioLast'.ret)
  /\ UNCHANGED <<videoVars, muteVars, appVars, videoInterface>>

\* getUserMedia resolves for a startRecording() of the App
MicGrantedApp ==
  /\ MicGranted
  /\ StartedRecording(audioLast'.ret)
  /\ UNCHANGED <<videoVars, muteVars, appVars, videoInterface>>

\* getUserMedia rejects for a startRecording() of the App
MicRejectedApp ==
  /\ MicRejected
  /\ StartedRecording("throws")
  /\ UNCHANGED <<videoVars, muteVars, appVars, videoInterface>>

\* React renders the App with the states as they are
RenderApp ==
  /\ appState.shown # [isRecording |-> appState.isRecording, isLoading |-> appState.isLoading]
  /\ appState' = [appState EXCEPT !.shown = [isRecording |-> appState.isRecording,
                                             isLoading |-> appState.isLoading]]
  /\ UNCHANGED <<wsVars, videoVars, audioVars, muteVars, noteVars, appVars, videoInterface>>

\* ---------------------------------------------------------- VideoInterface
\* a stopped camera stream that neither the stream state nor the video
\* element refers to is garbage
CollectCameraStreams(vi) ==
  [vi EXCEPT !.tracks = [i \in DOMAIN @ |->
                           IF @[i] = "stopped" /\ i # vi.stream /\ i # vi.srcObject
                           THEN "none" ELSE @[i]]]

\* the parent flips the isVideoOn prop; the component renders and its effect
\* runs with the stream state of that render: startVideo() asks for the
\* camera when the video is on and there is no stream, stopVideo() stops the
\* tracks of the stream and clears the state and the element when the video
\* is off and there is a stream
VideoToggle ==
  LET on == ~videoInterface.isVideoOn
      stream == videoInterface.stream
  IN /\ IF on /\ stream = NoStream
        THEN /\ videoInterface.pending < MaxCameraRequests
             /\ videoInterface' = [videoInterface EXCEPT !.isVideoOn = on,
                                                         !.pending = @ + 1,
                                                         !.op = "startVideo"]
        ELSE IF ~on /\ stream # NoStream
        THEN videoInterface' = CollectCameraStreams(
                                 [videoInterface EXCEPT !.isVideoOn = on,
                                                        !.op = "stopVideo",
                                                        !.tracks[stream] = "stopped",
                                                        !.stream = NoStream,
                                                        !.srcObject = NoStream])
        ELSE videoInterface' = [videoInterface EXCEPT !.isVideoOn = on, !.op = "toggle"]
     /\ UNCHANGED <<wsVars, videoVars, audioVars, muteVars, noteVars, appVars, appState>>

\* getUserMedia of a startVideo() resolves: the element shows the new stream
\* and setStream stores it
CameraGranted ==
  LET free == {i \in DOMAIN videoInterface.tracks : videoInterface.tracks[i] = "none"}
  IN /\ videoInterface.pending > 0
     /\ free # {}
     /\ LET s == CHOOSE i \in free : \A j \in free : i <= j
        IN videoInterface' = CollectCameraStreams(
                               [videoInterface EXCEPT !.pending = @ - 1,
                                                      !.op = "granted",
                                                      !.tracks[s] = "live",
                                                      !.srcObject = s,
                                                      !.stream = s])
     /\ UNCHANGED <<wsVars, videoVars, audioVars, muteVars, noteVars, appVars, appState>>

\* getUserMedia of a startVideo() rejects: setError
CameraRejected ==
  /\ videoInterface.pending > 0
  /\ videoInterface' = [videoInterface EXCEPT !.pending = @ - 1, !.error = TRUE,
                                              !.op = "rejected"]
  /\ UNCHANGED <<wsVars, videoVars, audioVars, muteVars, noteVars, appVars, appState>>

\* ------------------------------------------------------------------- runs
Connect == ConnectWithin(MaxSockets)
TimerFire == TimerFireWithin(MaxSockets)
OnClose == OnCloseWithin(MaxTimers)

\* everything but the WebSocketService
otherVars == <<videoVars, audioVars, muteVars, noteVars, appVars, uiVars>>

\* the connection life cycle
Next ==
  \/ Connect /\ UNCHANGED otherVars
  \/ Disconnect /\ UNCHANGED otherVars
  \/ SetAutoReconnect /\ UNCHANGED otherVars
  \/ OnOpen /\ UNCHANGED otherVars
  \/ OnClose /\ UNCHANGED otherVars
  \/ OnError /\ UNCHANGED otherVars
  \/ TimerFire /\ UNCHANGED otherVars

Spec == Init /\ [][Next]_vars

ConnectMsg == ConnectWithin(MaxSocketsMsg)
TimerFireMsg == TimerFireWithin(MaxSocketsMsg)
OnCloseMsg == OnCloseWithin(MaxTimersMsg)

\* the connection life cycle together with the message traffic
NextMsg ==
  \/ ConnectMsg /\ UNCHANGED otherVars
  \/ Disconnect /\ UNCHANGED otherVars
  \/ OnOpen /\ UNCHANGED otherVars
  \/ OnCloseMsg /\ UNCHANGED otherVars
  \/ TimerFireMsg /\ UNCHANGED otherVars
  \/ Send /\ UNCHANGED otherVars
  \/ Ping /\ UNCHANGED otherVars
  \/ OnMessage /\ UNCHANGED otherVars
  \/ RemoveMessageHandler /\ UNCHANGED otherVars
  \/ OnMessageEvent /\ UNCHANGED otherVars

SpecMsg == Init /\ [][NextMsg]_vars

\* the connection life cycle together with the inbound traffic only
NextFrame ==
  \/ ConnectMsg /\ UNCHANGED otherVars
  \/ OnOpen /\ UNCHANGED otherVars
  \/ OnCloseMsg /\ UNCHANGED otherVars
  \/ TimerFireMsg /\ UNCHANGED otherVars
  \/ OnMessage /\ UNCHANGED otherVars
  \/ RemoveMessageHandler /\ UNCHANGED otherVars
  \/ OnMessageEvent /\ UNCHANGED otherVars

SpecFrame == Init /\ [][NextFrame]_vars

\* the VideoService alone
NextVideo ==
  \/ VideoInitialize /\ UNCHANGED notVideo
  \/ StartVideo /\ UNCHANGED notVideo
  \/ StartVideoGranted /\ UNCHANGED notVideo
  \/ StartVideoRejected /\ UNCHANGED notVideo
  \/ StopVideo /\ UNCHANGED notVideo
  \/ FrameTick /\ UNCHANGED notVideo
  \/ ToBlobDone /\ UNCHANGED notVideo
  \/ VideoUpdateSettings /\ UNCHANGED notVideo
  \/ SetVideoFrameCallback /\ UNCHANGED notVideo

SpecVideo == Init /\ [][NextVideo]_vars

\* switchVideoDevice() called while no other switch waits for the camera
SwitchVideoDeviceAlone == camera.pendingSwitches = 0 /\ SwitchVideoDevice

\* the VideoService with its device switch and cleanup
NextCamera ==
  \/ VideoInitializeDefault /\ UNCHANGED notVideo
  \/ StartVideo /\ UNCHANGED notVideo
  \/ StartVideoGranted /\ UNCHANGED notVideo
  \/ StartVideoRejected /\ UNCHANGED notVideo
  \/ StopVideo /\ UNCHANGED notVideo
  \/ FrameTick /\ UNCHANGED notVideo
  \/ ToBlobDone /\ UNCHANGED notVideo
  \/ SetVideoFrameCallback /\ UNCHANGED notVideo
  \/ SwitchVideoDeviceAlone /\ UNCHANGED notVideo
  \/ SwitchVideoGranted /\ UNCHANGED notVideo
  \/ SwitchVideoRejected /\ UNCHANGED notVideo
  \/ VideoCleanup /\ UNCHANGED notVideo

SpecCamera == Init /\ [][NextCamera]_vars

\* snapshots taken while the VideoService starts, streams, stops and is
\* cleaned up
NextSnapshot ==
  \/ VideoInitializeDefault /\ UNCHANGED notVideo
  \/ StartVideo /\ UNCHANGED notVideo
  \/ StartVideoGranted /\ UNCHANGED notVideo
  \/ StopVideo /\ UNCHANGED notVideo
  \/ FrameTick /\ UNCHANGED notVideo
  \/ ToBlobDone /\ UNCHANGED notVideo
  \/ SetVideoFrameCallback /\ UNCHANGED notVideo
  \/ TakeSnapshot /\ UNCHANGED notVideo
  \/ SnapshotDone /\ UNCHANGED notVideo
  \/ VideoCleanup /\ UNCHANGED notVideo

SpecSnapshot == Init /\ [][NextSnapshot]_vars

StartRecording == StartRecordingWithin(MaxPendingMics)
RecorderData == RecorderDataOf(LoudBlobs)

\* the recording life cycle of the AudioService
NextAudio ==
  \/ StartRecording /\ UNCHANGED notAudio
  \/ MicGranted /\ UNCHANGED notAudio
  \/ MicRejected /\ UNCHANGED notAudio
  \/ StopRecording /\ UNCHANGED notAudio
  \/ RecorderData /\ UNCHANGED notAudio
  \/ ChunkProcessed /\ UNCHANGED notAudio
  \/ PollTick /\ UNCHANGED notAudio
  \/ SetAudioDataCallback /\ UNCHANGED notAudio
  \/ SetTranscriptionCallback /\ UNCHANGED notAudio

SpecAudio == Init /\ [][NextAudio]_vars

\* the AudioService with its device switch and cleanup
NextDevice ==
  \/ StartRecording /\ UNCHANGED notAudio
  \/ MicGranted /\ UNCHANGED notAudio
  \/ MicRejected /\ UNCHANGED notAudio
  \/ StopRecording /\ UNCHANGED notAudio
  \/ SwitchAudioDevice /\ UNCHANGED notAudio
  \/ SwitchAudioGranted /\ UNCHANGED notAudio
  \/ SwitchAudioRejected /\ UNCHANGED notAudio
  \/ AudioCleanup /\ UNCHANGED notAudio
  \/ RecorderData /\ UNCHANGED notAudio
  \/ ChunkProcessed /\ UNCHANGED notAudio
  \/ PollTick /\ UNCHANGED notAudio

SpecDevice == Init /\ [][NextDevice]_vars

\* the App's socket and mute switch with the backend
NextMute ==
  \/ ConnectWebSocket /\ UNCHANGED notMute
  \/ AppSocketOpen /\ UNCHANGED notMute
  \/ AppSocketError /\ UNCHANGED notMute
  \/ AppSocketClose /\ UNCHANGED notMute
  \/ ToggleMute /\ UNCHANGED notMute
  \/ BackendHandles /\ UNCHANGED notMute
  \/ AppSocketMessage /\ UNCHANGED notMute

SpecMute == Init /\ [][NextMute]_vars

\* the raw-socket App with the effects that connect and reconnect its socket
NextReconnect ==
  \/ IframeOnLoad /\ UNCHANGED notApp
  \/ RunEffects /\ UNCHANGED notApp
  \/ ReconnectTimerFires /\ UNCHANGED notApp
  \/ AppSocketOpenRendered /\ UNCHANGED notApp
  \/ AppSocketErrorRendered /\ UNCHANGED notApp
  \/ AppSocketCloseRendered /\ UNCHANGED notApp
  \/ ToggleMute /\ UNCHANGED notMute
  \/ BackendHandles /\ UNCHANGED notMute
  \/ AppSocketMessage /\ UNCHANGED notMute

SpecReconnect == Init /\ [][NextReconnect]_vars

\* the notification list of the service-based App
NextNote ==
  \/ AddNotification /\ UNCHANGED notNote
  \/ ClockTick /\ UNCHANGED notNote
  \/ TimeoutFires /\ UNCHANGED notNote
  \/ ClickNotification /\ UNCHANGED notNote

SpecNote == Init /\ [][NextNote]_vars

\* errors of the service calls shown as notifications
NextError ==
  \/ HandleAppError /\ UNCHANGED notNote
  \/ ClockTick /\ UNCHANGED notNote
  \/ TimeoutFires /\ UNCHANGED notNote
  \/ ClickNotification /\ UNCHANGED notNote

SpecError == Init /\ [][NextError]_vars

\* the error utilities called with every argument
NextUtility ==
  \/ HandleErrorCall /\ UNCHANGED notNote
  \/ GetErrorMessageCall /\ UNCHANGED notNote

SpecUtility == Init /\ [][NextUtility]_vars

StartRecordingVad == mic.pendingStarts = 0 /\ StartRecording
RecorderDataVad == RecorderDataOf(Blobs)

\* recording with the settings changing and every kind of chunk
NextVad ==
  \/ StartRecordingVad /\ UNCHANGED notAudio
  \/ MicGranted /\ UNCHANGED notAudio
  \/ RecorderDataVad /\ UNCHANGED notAudio
  \/ ChunkProcessed /\ UNCHANGED notAudio
  \/ PollTick /\ UNCHANGED notAudio
  \/ AudioUpdateSettings /\ UNCHANGED notAudio
  \/ SetAudioDataCallback /\ UNCHANGED notAudio

SpecVad == Init /\ [][NextVad]_vars

\* switchAudioDevice() called while no other call waits for the microphone
SwitchAudioDeviceAlone ==
  mic.pendingStarts = 0 /\ mic.pendingSwitches = 0 /\ SwitchAudioDevice
RecorderDataEmpty == RecorderDataOf({[size |-> 0, decodes |-> FALSE, samples |-> << >>]})

\* the polling timer over recording, device switch and cleanup, one
\* startRecording() at a time and recorders that deliver empty blobs
NextPoll ==
  \/ StartRecordingVad /\ UNCHANGED notAudio
  \/ MicGranted /\ UNCHANGED notAudio
  \/ StopRecording /\ UNCHANGED notAudio
  \/ SwitchAudioDeviceAlone /\ UNCHANGED notAudio
  \/ SwitchAudioGranted /\ UNCHANGED notAudio
  \/ AudioCleanup /\ UNCHANGED notAudio
  \/ RecorderDataEmpty /\ UNCHANGED notAudio
  \/ PollTick /\ UNCHANGED notAudio
  \/ SetTranscriptionCallback /\ UNCHANGED notAudio

SpecPoll == Init /\ [][NextPoll]_vars

\* the App's record button over the AudioService
NextToggle ==
  \/ ToggleRecording
  \/ MicGrantedApp
  \/ MicRejectedApp
  \/ RenderApp
  \/ RecorderDataEmpty /\ UNCHANGED notAudio
  \/ TimeoutFires /\ UNCHANGED notNote

SpecToggle == Init /\ [][NextToggle]_vars

\* the VideoInterface component
NextInterface ==
  \/ VideoToggle
  \/ CameraGranted
  \/ CameraRejected

SpecInterface == Init /\ [][NextInterface]_vars

\* ================================================================= claims
SendOps == {"send", "ping"}
Live(socks) == {s \in Slots : socks[s].readyState \in {"CONNECTING", "OPEN"}}
Frame == last.sent[1].frame
Added == {"timestamp", "session_id"}

\* C1: send(message) returns false and hands nothing to the socket whenever the
\* service holds no socket or a socket that is not open, and then no field of the
\* service changes.
C1_SendWhenNotOpen ==
  [][ (last'.op \in SendOps /\ ~IsOpen(sockets, ws))
        => /\ last'.ret = "false"
           /\ last'.sent = << >>
           /\ UNCHANGED <<sockets, ws, sessionId, reconnectAttempts, isConnecting,
                          autoReconnect, messageHandlers, timers>> ]_vars

C1_Witness ==
  /\ last.op = "send"
  /\ last.ret = "false"
  /\ ws # NoSocket
  /\ sockets[ws].readyState = "CONNECTING"

\* C2: there is no outbound queue: frames reach a socket only inside a send call
\* that returns true, one frame per call and the frame of that call's message; a
\* call that returned false transmits nothing, and the operations that create or
\* open a socket later (connect, the reconnect timer, onopen) transmit no frame of
\* an earlier call.
C2_NoOutboundQueue ==
  /\ last.ret = "false" => last.sent = << >>
  /\ last.op \notin SendOps \cup {"open"} => last.sent = << >>
  /\ last.sent # << >> =>
       /\ last.ret = "true"
       /\ Len(last.sent) = 1
       /\ Frame.type = last.msg.type
       /\ last.op = "open" => Frame.type = Str("connection")

C2_Witness ==
  /\ last.op = "send"
  /\ last.ret = "false"
  /\ timers # EmptyBag

\* C3: a transmitted frame is the caller's message with timestamp and session_id
\* added: session_id is the service's session id and timestamp the clock's value,
\* both override the caller's members of the same name, every other defined
\* member is the caller's and no other member is added; ping() on session_1
\* transmits exactly {type: 'ping', timestamp, session_id: 'session_1'}.
C3_Envelope ==
  (last.op \in SendOps /\ last.sent # << >>) =>
    /\ Added \subseteq DOMAIN Frame
    /\ Frame.session_id = Str(sessionId)
    /\ Frame.timestamp \in {Str(t) : t \in IsoTimes}
    /\ DOMAIN Frame \subseteq (DOMAIN last.msg) \cup Added
    /\ \A f \in (DOMAIN last.msg) \ Added :
         last.msg[f] # Undefined => (f \in DOMAIN Frame /\ Frame[f] = last.msg[f])
    /\ last.op = "ping" =>
         /\ DOMAIN Frame = {"type", "timestamp", "session_id"}
         /\ Frame.type = Str("ping")
         /\ sessionId = "session_1" => Frame.session_id = Str("session_1")

C3_Witness ==
  /\ last.op = "ping"
  /\ last.sent # << >>
  /\ sessionId = "session_1"
  /\ sockets[last.sent[1].sock].url = WsUrl("session_1")

\* C4: the n-th reconnect scheduled since the last open is delayed by
\* 1000 * 2^(n-1) ms: 1000, 2000, 4000, 8000, 16000.
BackoffTable == <<1000, 2000, 4000, 8000, 16000>>

C4_Backoff ==
  \A t \in BagToSet(timers) :
    /\ t.nth \in 1..Len(BackoffTable)
    /\ t.delay = BackoffTable[t.nth]

C4_Witness == \E t \in BagToSet(timers) : t.nth = 5 /\ t.delay = 16000

\* C5: reconnectAttempts never exceeds 5 and at most 5 reconnects are scheduled
\* between two opens; a close event arriving when 5 attempts are used up schedules
\* nothing, and once the 5 timers have fired only the caller's connect creates a
\* socket.
C5_AttemptCap ==
  /\ [](reconnectAttempts <= 5 /\ nthSinceOpen <= 5)
  /\ [][ (last'.op = "close" /\ reconnectAttempts = 5)
           => (timers' = timers /\ nthSinceOpen' = nthSinceOpen) ]_vars
  /\ [][ (nthSinceOpen = 5 /\ timers = EmptyBag /\ last'.created # NoSocket)
           => last'.op = "connect" ]_vars

C5_Witness ==
  /\ last.op = "close"
  /\ reconnectAttempts = 5
  /\ nthSinceOpen = 5
  /\ timers = EmptyBag
  /\ autoReconnect

\* C6: a close event schedules a reconnect only if auto-reconnect is enabled and
\* attempts remain; while auto-reconnect stays disabled only the caller's connect
\* creates a socket, also when a timer scheduled earlier fires.
C6_AutoReconnectOff ==
  /\ [][ (last'.op = "close" /\ timers' # timers)
           => (autoReconnect /\ reconnectAttempts < maxReconnectAttempts) ]_vars
  /\ [][ (~autoReconnect /\ ~autoReconnect' /\ last'.created # NoSocket)
           => last'.op = "connect" ]_vars

C6_Witness ==
  /\ last.op = "timer"
  /\ ~autoReconnect
  /\ last.created = NoSocket
  /\ ~isConnecting
  /\ ~IsOpen(sockets, ws)

\* C7: every open event sets reconnectAttempts to 0 and isConnecting to false,
\* notifies the 'connected' handlers and sends one envelope of type 'connection'
\* carrying the session id.
C7_OpenAnnounces ==
  last.op = "open" =>
    /\ reconnectAttempts = 0
    /\ ~isConnecting
    /\ last.notify = <<"connected">>
    /\ Len(last.sent) = 1
    /\ last.sent[1].sock = last.sock
    /\ Frame.type = Str("connection")
    /\ Frame.session_id = Str(sessionId)

\* C8: the service never has two sockets that are connecting or open at the
\* same time.
C8_OneLiveSocket == Cardinality(Live(sockets)) <= 1

C10_Dispatch ==
  (last.op = "message" /\ last.msg # NoMessage) =>
    LET type == Member(last.msg, "type")
        keys == {t \in MessageTypes : Str(t) = type /\ registered[t] # NoHandler}
    IN IF keys # {}
       THEN \E t \in keys :
              last.calls = <<[callback |-> registered[t],
                              arg |-> Member(last.msg, "data")]>>
       ELSE last.calls = << >>

C10_Witness ==
  /\ last.op = "message"
  /\ last.calls = <<[callback |-> "h2", arg |-> Obj([label |-> "calm"])]>>
  /\ registered["transcription"] = "h1"
  /\ registered["sentiment"] = "h2"

\* C11: updateSettings({quality: x}) stores max(0.1, min(1.0, x)) for every
\* numeric x: 0 and negative x are stored as 0.1, x above 1 as 1.0 (tenths here).
C11_QualityClamp ==
  (videoLast.op = "updateSettings" /\ "quality" \in DOMAIN videoLast.arg) =>
    LET x == videoLast.arg.quality
    IN videoService.quality = (IF x < 1 THEN 1 ELSE IF x > 10 THEN 10 ELSE x)

\* C12: the stored video quality is within [0.1, 1.0] in every reachable state,
\* whatever initialize and updateSettings calls were made, and so is the quality
\* reported with every delivered frame.
C12_QualityRange ==
  /\ videoService.quality \in 1..10
  /\ \A i \in DOMAIN videoLast.frame : videoLast.frame[i].quality \in 1..10

\* C17: stopVideo() while streaming returns true and leaves isStreaming false,
\* frameInterval null with the held timer cleared, every track of the held stream
\* stopped, stream null and the element's source null; while not streaming it
\* returns false and changes neither the service nor the camera, the element
\* or the timers.
C17_StopVideo ==
  [][videoLast'.op = "stopVideo" =>
       IF videoService.isStreaming
       THEN /\ videoLast'.ret = "true"
            /\ ~videoService'.isStreaming
            /\ videoService'.frameInterval = NoTimer
            /\ \A t \in camera'.intervals : t.id # videoService.frameInterval
            /\ videoService.stream # NoStream =>
                 camera'.tracks[videoService.stream] \in {"stopped", "none"}
            /\ videoService'.stream = NoStream
            /\ videoService.videoElement # Null => camera'.srcObject = NoStream
       ELSE /\ videoLast'.ret = "false"
            /\ UNCHANGED <<videoService, camera>>]_vars

\* stopVideo() returned true for a service that showed its stream in an element
\* and had an encode in flight
C17_Witness ==
  /\ videoLast.op = "stopVideo"
  /\ videoLast.ret = "true"
  /\ videoService.videoElement # Null
  /\ camera.encodes > 0
  /\ camera.srcObject = NoStream

\* C13: onAudioData is invoked for a chunk only if the chunk's RMS is strictly
\* greater than the vadThreshold in force when the chunk is checked (the mean
\* square exceeds the threshold's square, or the threshold is negative); it is
\* not invoked for an all-zero chunk under a threshold >= 0 nor for an empty
\* chunk.
C13_VadGate ==
  audioLast.op = "processAudioChunk" =>
    LET q == audioLast.chunk.samples
        t == audioLast.threshold
    IN /\ t = audioService.vadThreshold
       /\ audioLast.data # << >> =>
            /\ Len(q) > 0
            /\ t < 0 \/ SumSq(q) > t * t * Len(q)
       /\ ((\A i \in DOMAIN q : q[i] = 0) /\ t >= 0) => audioLast.data = << >>
       /\ q = << >> => audioLast.data = << >>

\* a chunk whose RMS equals the threshold was checked with a callback set
C13_Witness ==
  /\ audioLast.op = "processAudioChunk"
  /\ audioLast.chunk.decodes
  /\ audioLast.chunk.samples = <<3>>
  /\ audioLast.threshold = 3
  /\ audioService.onAudioData # NoCallback
  /\ audioLast.data = << >>

\* C16: when stopRecording() returns true, isRecording is false, the recorder
\* the service held has been stopped and mediaRecorder is null, the polling
\* timer it held has been cleared and recordingInterval is null; when the
\* service is not recording it returns false and changes nothing.
C16_StopRecording ==
  [][audioLast'.op = "stopRecording" =>
       IF ~audioService.isRecording
       THEN /\ audioLast'.ret = "false"
            /\ UNCHANGED <<audioService, mic>>
       ELSE audioLast'.ret = "true" =>
              /\ ~audioService'.isRecording
              /\ audioService'.mediaRecorder = NoRecorder
              /\ audioService.mediaRecorder # NoRecorder =>
                   mic'.recorders[audioService.mediaRecorder].state # "recording"
              /\ audioService'.recordingInterval = NoTimer
              /\ \A t \in mic'.intervals : t.id # audioService.recordingInterval]_vars

\* stopRecording() returned true and stopped a recorder that still has to
\* deliver its last data
C16_Witness ==
  /\ audioLast.op = "stopRecording"
  /\ audioLast.ret = "true"
  /\ \E r \in RecorderSlots : mic.recorders[r].state = "flushing"
  /\ mic.intervals = {}

\* C18: stopping cancels no asynchronous work in flight, and once the encodes
\* started before stopVideo() and the chunks emitted before or by stopRecording()
\* are delivered, no further callback occurs: onVideoFrame is not invoked when
\* the service is not streaming and no encode is in flight, and onAudioData is
\* not invoked for a chunk that a recorder emitted after stopRecording().
C18_NoCallbackAfterDrain ==
  [][/\ (~videoService.isStreaming /\ camera.encodes = 0) => videoLast'.frame = << >>
     /\ (audioLast'.op = "processAudioChunk" /\ audioLast'.data # << >>) =>
          audioLast'.chunk.emitted # "stopped"]_vars

\* C19: after updateSettings({noise_suppression: v}) for a boolean v,
\* getSettings().noise_suppression is v and the constraints of the next
\* microphone acquisition carry noiseSuppression = v.
C19_NoiseSuppressionRoundTrip ==
  (audioLast.op = "updateSettings" /\ "noise_suppression" \in DOMAIN audioLast.arg) =>
    /\ GetSettings(audioService).noise_suppression = audioLast.arg.noise_suppression
    /\ AudioConstraints(audioService).noiseSuppression = audioLast.arg.noise_suppression

\* C20: updateSettings changes only the configuration fields named in its
\* argument: the stream, audio context, analyser, recorder, polling timer,
\* callbacks and isRecording, and the browser's streams, recorders and timers,
\* are untouched, a field absent from the argument keeps its value, and a given
\* vad_threshold is stored; every chunk check and polling tick compares with
\* the threshold the service holds at that moment.
C20_UpdateSettingsFrame ==
  [][/\ audioLast'.op = "updateSettings" =>
          LET settings == audioLast'.arg
          IN /\ mic' = mic
             /\ \A f \in {"mediaRecorder", "audioContext", "analyser", "microphone",
                          "isRecording", "stream", "onAudioData", "onTranscription",
                          "recordingInterval", "channels"} :
                  audioService'[f] = audioService[f]
             /\ "sample_rate" \notin DOMAIN settings =>
                  audioService'.sampleRate = audioService.sampleRate
             /\ "vad_threshold" \notin DOMAIN settings =>
                  audioService'.vadThreshold = audioService.vadThreshold
             /\ "echo_cancellation" \notin DOMAIN settings =>
                  audioService'.echoCancellation = audioService.echoCancellation
             /\ "noise_suppression" \notin DOMAIN settings =>
                  audioService'.noiseSuppression = audioService.noiseSuppression
             /\ "vad_threshold" \in DOMAIN settings =>
                  audioService'.vadThreshold = settings.vad_threshold.num
     /\ (audioLast'.op = "processAudioChunk" \/ (audioLast'.op = "pollTick" /\ audioLast'.volume >= 0)) =>
          audioLast'.threshold = audioService.vadThreshold]_vars

\* the threshold was changed while recording and a polling tick compared the
\* volume with the new value
C20_Witness ==
  /\ audioLast.op = "pollTick"
  /\ audioLast.volume = 52
  /\ audioLast.threshold = 3
  /\ audioService.isRecording
  /\ audioService.mediaRecorder # NoRecorder
  /\ audioService.sampleRate = 16000

\* C14: whatever the toggles and the server's answers were, once no frame is
\* on its way to the server and every response has been processed, the
\* displayed mute state equals the server's mute state.
C14_MuteAgreesWithServer ==
  (backend.toServer = << >> /\ backend.toClient = << >>) => isMuted = backend.muted

\* C15: a click on a notification, and the firing of its 8-second timer,
\* remove the notification with that id from the list and leave the
\* notifications with other ids in the list, in their order.
C15_NotificationRemoved ==
  [][noteLast'.op \in {"click", "timeout"} =>
       LET id == noteLast'.id
           Others(list) == SelectSeq(list, LAMBDA n : n.id # id)
       IN /\ \A i \in DOMAIN notifications' : notifications'[i].id # id
          /\ Others(notifications') = Others(notifications)]_vars

\* C21: when switchAudioDevice resolves while the service is recording, the
\* recorder in use still records and is bound to the newly acquired stream,
\* whose tracks are live, and the analyser is fed from that stream.
C21_SwitchKeepsRecording ==
  (/\ audioLast.op = "switchGranted"
   /\ audioService.isRecording
   /\ audioService.mediaRecorder # NoRecorder) =>
    LET recorder == mic.recorders[audioService.mediaRecorder]
    IN /\ recorder.state = "recording"
       /\ recorder.stream = audioService.stream
       /\ mic.tracks[recorder.stream] = "live"
       /\ audioService.analyser => audioService.microphone = audioService.stream

\* C22: a rejected microphone acquisition, in initialize() or in
\* switchAudioDevice(), starts no request of its own and changes no field, and
\* the startRecording() the user issues next while not recording either asks
\* for a fresh stream or works on a held stream whose tracks are live.
C22_RetryAfterRejection ==
  [][/\ audioLast'.op \in {"micRejected", "switchRejected"} =>
          /\ audioService' = audioService
          /\ mic'.pendingStarts + mic'.pendingSwitches
                = mic.pendingStarts + mic.pendingSwitches - 1
     /\ (/\ audioLast.op \in {"micRejected", "switchRejected"}
         /\ ~audioService.isRecording
         /\ audioLast'.op = "startRecording") =>
          \/ audioLast'.ret = "pending"
          \/ /\ audioService.stream # NoStream
             /\ mic.tracks[audioService.stream] = "live"]_vars

\* the domain a handleAppError call site belongs to
DomainOf(context) ==
  IF context = "WebSocket connection" THEN "WebSocket"
  ELSE IF context = "Video control" THEN "Video" ELSE "Recording"

\* C23: the message shown for an error of the connection, of recording or of
\* video control is the entry of that domain's table in ErrorMessages for the
\* error code that was matched, and the General 'Unknown error' string is shown
\* exactly when that table has no entry for the code.
C23_DomainMessage ==
  noteLast.op = "handleAppError" =>
    LET table == ErrorMessages[DomainOf(noteLast.context)]
    IN noteLast.message = IF noteLast.errorCode \in DOMAIN table
                          THEN table[noteLast.errorCode]
                          ELSE ErrorMessages["General"]["UNKNOWN"]

\* C24: takeSnapshot() rejects with 'Video service not initialized' and starts
\* no encode when the element or the canvas with its context is missing,
\* otherwise it starts exactly one encode, whose completion settles the promise
\* once, resolving with the blob or rejecting with 'Failed to create snapshot';
\* neither step invokes onVideoFrame or changes the service (isStreaming, stream,
\* frame timer), the tracks, the timers or the frame encodes in flight.
C24_TakeSnapshot ==
  [][(videoLast'.op \in {"takeSnapshot", "snapshotDone"}) =>
       /\ videoService' = videoService
       /\ videoLast'.frame = << >>
       /\ [camera' EXCEPT !.snapshots = 0] = [camera EXCEPT !.snapshots = 0]
       /\ IF videoLast'.op = "snapshotDone"
          THEN /\ camera.snapshots > 0
               /\ camera'.snapshots = camera.snapshots - 1
               /\ videoLast'.ret \in {"resolves: blob", "rejects: Failed to create snapshot"}
          ELSE IF videoService.videoElement = Null \/ videoService.canvas = NoCanvas
          THEN /\ camera'.snapshots = camera.snapshots
               /\ videoLast'.ret = "rejects: Video service not initialized"
          ELSE /\ camera'.snapshots = camera.snapshots + 1
               /\ videoLast'.ret = "pending"]_vars

\* a snapshot failed to encode while the service was streaming with a frame
\* callback set and a frame encode in flight
C24_Witness ==
  /\ videoLast.op = "snapshotDone"
  /\ videoLast.ret = "rejects: Failed to create snapshot"
  /\ videoService.isStreaming
  /\ videoService.onVideoFrame # NoCallback
  /\ camera.encodes > 0
  /\ camera.snapshots = 0

\* C25: a polling tick invokes onTranscription only if at that tick
\* isRecording is true, an analyser exists and the average volume is strictly
\* greater than vadThreshold * 255; stopRecording() leaves isRecording false
\* however it ends, and the tick that follows it invokes nothing.
C25_PollGate ==
  [][/\ (audioLast'.op = "pollTick" /\ audioLast'.transcription # << >>) =>
          /\ audioService.isRecording
          /\ audioService.analyser
          /\ audioService.onTranscription # NoCallback
          /\ audioLast'.volume * 10 > audioService.vadThreshold * 255
     /\ audioLast'.op = "stopRecording" => ~audioService'.isRecording
     /\ (audioLast.op = "stopRecording" /\ audioLast'.op = "pollTick") =>
          audioLast'.transcription = << >>]_vars

\* while recording with an analyser and a callback, a tick measured a volume
\* equal to vadThreshold * 255 and invoked nothing
C25_Witness ==
  /\ audioLast.op = "pollTick"
  /\ audioService.isRecording
  /\ audioService.analyser
  /\ audioService.onTranscription # NoCallback
  /\ audioLast.volume = 51
  /\ audioLast.threshold = 2
  /\ audioLast.transcription = << >>

\* the recorders that are recording
Recording(m) == {r \in RecorderSlots : m.recorders[r].state = "recording"}

\* C26: whatever the interleaving of startRecording() calls, their microphone
\* grants, stopRecording() and cleanup(), at most one recorder is recording and
\* at most one polling timer exists, and after a stopRecording() that returned
\* true no recorder is recording.
C26_OneRecorder ==
  [][/\ Cardinality(Recording(mic')) <= 1
     /\ Cardinality(mic'.intervals) <= 1
     /\ (audioLast'.op = "stopRecording" /\ audioLast'.ret = "true") =>
          Recording(mic') = {}]_vars

\* the steps in which a startRecording() call ends or goes on
StartSteps == {"startRecording", "micGranted", "micRejected"}

\* C27: when startRecording() throws, because the microphone is refused or
\* because creating or starting the MediaRecorder throws, isRecording is false
\* and no polling timer exists afterwards, and a startRecording() called next
\* is not refused as already recording.
C27_FailedStartStopped ==
  [][/\ (audioLast'.op \in StartSteps /\ audioLast'.ret = "throws") =>
          /\ ~audioService'.isRecording
          /\ mic'.intervals = {}
     /\ (/\ audioLast.op \in StartSteps
         /\ audioLast.ret = "throws"
         /\ audioLast'.op = "startRecording") => audioLast'.ret # "false"]_vars

\* C28: whenever no startVideo() or switchVideoDevice() call waits for the
\* camera and isStreaming is false, no camera stream has a live track.
C28_NoLeakedStream ==
  (/\ camera.pendingStarts = 0
   /\ camera.pendingSwitches = 0
   /\ ~videoService.isStreaming) =>
    \A i \in StreamSlots : camera.tracks[i] # "live"

\* C29: there is never more than one frame timer and none while isStreaming
\* is false; after startVideo() is granted, and after updateSettings with a
\* frameRate while streaming, the one timer is the timer the service holds and
\* its period is 1000 / frameRate ms; updateSettings while not streaming leaves
\* the timers as they were.
C29_OneFrameTimer ==
  [][/\ Cardinality(camera'.intervals) <= 1
     /\ camera'.intervals # {} => videoService'.isStreaming
     /\ (\/ videoLast'.op = "startVideoGranted"
         \/ /\ videoLast'.op = "updateSettings"
            /\ Truthy(videoLast'.arg, "frameRate")
            /\ videoService.isStreaming) =>
          camera'.intervals = {[id |-> videoService'.frameInterval,
                                ms |-> <<1000, videoService'.frameRate>>]}
     /\ (videoLast'.op = "updateSettings" /\ ~videoService.isStreaming) =>
          camera'.intervals = camera.intervals]_vars

\* updateSettings({frameRate: 15}) while streaming with an encode in flight
\* left one timer of period 1000 / 15 ms
C29_Witness ==
  /\ videoLast.op = "updateSettings"
  /\ "frameRate" \in DOMAIN videoLast.arg
  /\ videoService.isStreaming
  /\ camera.encodes > 0
  /\ camera.intervals = {[id |-> videoService.frameInterval, ms |-> <<1000, 15>>]}

\* C30: switchVideoDevice stops the tracks of the held stream and leaves the
\* service, the frame timer, the element's source and the encodes in flight as
\* they are; while its request is pending a timer tick of a streaming service
\* with element and canvas still captures, whatever the state of the tracks the
\* element shows.
C30_SwitchNotSynchronized ==
  [][/\ videoLast'.op = "switchVideoDevice" =>
          /\ videoService' = videoService
          /\ camera'.intervals = camera.intervals
          /\ camera'.srcObject = camera.srcObject
          /\ camera'.encodes = camera.encodes
          /\ videoService.stream # NoStream =>
               camera'.tracks[videoService.stream] = "stopped"
     /\ (/\ videoLast'.op = "frameTick"
         /\ camera.pendingSwitches > 0
         /\ videoService.isStreaming
         /\ videoService.videoElement # Null
         /\ videoService.canvas # NoCanvas) =>
          /\ videoLast'.ret = "encoding"
          /\ videoLast'.drawnFrom = ShownTracks(camera)
          /\ camera'.encodes = camera.encodes + 1]_vars

\* while a switch still waits for the new stream, a frame drawn from the
\* element showing the stopped stream was delivered through onVideoFrame
C30_Witness ==
  /\ videoLast.op = "toBlobDone"
  /\ videoLast.drawnFrom = "stopped"
  /\ videoLast.frame # << >>
  /\ videoService.isStreaming
  /\ camera.pendingSwitches > 0
  /\ ShownTracks(camera) = "stopped"

\* C31: a disconnection is announced once: the close event of a socket that
\* disconnect() closed while it was connecting or open (disconnect() itself
\* has notified 'disconnected' for it) notifies the 'disconnected' handlers
\* no second time.
C31_DisconnectNotifiedOnce ==
  [][ \A s \in Slots :
        (sockets[s].readyState = "CLOSING" /\ last'.op = "close" /\ last'.sock = s)
          => last'.notify = << >> ]_vars

\* C32: a reconnect keeps the session: a socket the reconnect timer creates is
\* on the URL of the session id the service held when the timer fired and the
\* timer leaves that id as it was; the session id changes only in a connect()
\* call of the caller; and the socket the service holds is always on the URL
\* of its session id, so the id a timer finds is the one of the connection
\* that dropped unless such a call came in between.
C32_ReconnectKeepsSession ==
  [][ /\ (last'.op = "timer" /\ last'.created # NoSocket)
           => /\ sockets'[last'.created].url = WsUrl(sessionId)
              /\ sessionId' = sessionId
      /\ sessionId' # sessionId => last'.op = "connect"
      /\ ws' # NoSocket => sockets'[ws'].url = WsUrl(sessionId') ]_vars

\* the timer opened a socket for a session whose id the caller had chosen
C32_Witness ==
  /\ last.op = "timer"
  /\ last.created # NoSocket
  /\ sessionId \in CallerIds
  /\ sockets[last.created].url = WsUrl(sessionId)

\* the message event that produced this state got a text JSON.parse rejects,
\* or invoked a handler that threw
BadFrame(did) == did.op = "message" /\ (did.msg = NoMessage \/ HandlerThrows(did.calls))

\* C33: a frame that is not valid JSON invokes no message handler, and neither
\* it nor a handler that throws lets an error out of the onmessage handler; the
\* event leaves the sockets, this.ws, isConnecting, reconnectAttempts, sessionId
\* and the handler table as they were, the socket stays open, and a message
\* event that follows is dispatched by the same rule as any other.
C33_BadFrameHarmless ==
  [][ /\ BadFrame(last') =>
           /\ last'.msg = NoMessage => last'.calls = << >>
           /\ last'.ret # "throws"
           /\ sockets' = sockets /\ ws' = ws /\ isConnecting' = isConnecting
           /\ reconnectAttempts' = reconnectAttempts /\ sessionId' = sessionId
           /\ messageHandlers' = messageHandlers /\ registered' = registered
           /\ sockets'[last'.sock].readyState = "OPEN"
      /\ (BadFrame(last) /\ last'.op = "message") => C10_Dispatch' ]_vars

\* a handler that throws was invoked on a socket that is still open afterwards
C33_Witness ==
  /\ BadFrame(last)
  /\ HandlerThrows(last.calls)
  /\ last.ret = "none"
  /\ sockets[last.sock].readyState = "OPEN"

\* C34: a lost connection is retried: in the raw-socket App, whenever the
\* iframe is loaded, the effects of the last render have run, and there is no
\* socket (the ref is null and the last socket has closed), a reconnect timer
\* is pending.
C34_AlwaysRetried ==
  (gradioLoaded /\ ~react.due /\ websocketRef = NoSocket /\ backend.readyState = "NONE")
    => reconnectTimer

C36_NoLiveTrackWhenOff ==
  (videoInterface.pending = 0 /\ ~videoInterface.isVideoOn)
    => \A s \in DOMAIN videoInterface.tracks : videoInterface.tracks[s] # "live"

\* C37: addNotification(message, type) with a type other than 'error' leaves
\* the notification list as it was and starts no timer; with type 'error' it
\* appends one notification of that type to the list and starts one timer for
\* its id.
C37_OnlyErrorsAdded ==
  [][ noteLast'.op = "addNotification" =>
        IF noteLast'.type = "error"
        THEN /\ Len(notifications') = Len(notifications) + 1
             /\ SubSeq(notifications', 1, Len(notifications)) = notifications
             /\ notifications'[Len(notifications')].type = "error"
             /\ notifications'[Len(notifications')].id = noteLast'.id
             /\ BagCardinality(timeouts') = BagCardinality(timeouts) + 1
             /\ \E t \in BagToSet(timeouts') : t.id = noteLast'.id
        ELSE /\ notifications' = notifications
             /\ timeouts' = timeouts ]_vars

\* a warning was passed to addNotification while the list held an error
C37_Witness ==
  /\ noteLast.op = "addNotification"
  /\ noteLast.type = "warning"
  /\ notifications # << >>
  /\ \A i \in DOMAIN notifications : notifications[i].type = "error"

\* the string of the table for (errorType, errorCode), or the given default
\* when the table has none
TableEntryOr(errorType, errorCode, default) ==
  IF \E t \in ErrorTypes : t = errorType /\ errorCode \in DOMAIN ErrorMessages[t]
  THEN Str(ErrorMessages[errorType][errorCode])
  ELSE Str(default)

\* C38: handleError takes the error code from the first of these that applies:
\* name 'TypeError' (TYPE_ERROR), name 'NetworkError' (NETWORK), a message with
\* 'timeout' (TIMEOUT), with 'permission' (PERMISSION_DENIED), with
\* 'connection' (CONNECTION_FAILED), and UNKNOWN when none does; and
\* getErrorMessage returns the table's string for (errorType, errorCode) when
\* there is one, else the fallback when one is given, else the General
\* UNKNOWN string: always a string.
C38_ErrorCodeAndMessage ==
  /\ noteLast.op = "handleError" =>
       LET name == noteLast.error.name
           words == noteLast.error.includes
           code == noteLast.errorCode
           named == name \in {"TypeError", "NetworkError"}
       IN /\ name = "TypeError" => code = "TYPE_ERROR"
          /\ name = "NetworkError" => code = "NETWORK"
          /\ (~named /\ "timeout" \in words) => code = "TIMEOUT"
          /\ (~named /\ "timeout" \notin words /\ "permission" \in words)
               => code = "PERMISSION_DENIED"
          /\ (~named /\ {"timeout", "permission"} \cap words = {} /\ "connection" \in words)
               => code = "CONNECTION_FAILED"
          /\ (~named /\ words = {}) => code = "UNKNOWN"
          /\ noteLast.message = TableEntryOr(noteLast.errorType, code,
                                             ErrorMessages["General"]["UNKNOWN"])
  /\ noteLast.op = "getErrorMessage" =>
       /\ noteLast.message =
            TableEntryOr(noteLast.errorType, noteLast.errorCode,
                         IF noteLast.fallback \in {Null, ""}
                         THEN ErrorMessages["General"]["UNKNOWN"]
                         ELSE noteLast.fallback)
       /\ DOMAIN noteLast.message = {"str"}

\* a TypeError whose message has every word handleError looks for got
\* TYPE_ERROR, for which the Recording table has no string
C38_Witness ==
  /\ noteLast.op = "handleError"
  /\ noteLast.error = [name |-> "TypeError", includes |-> ErrorWords]
  /\ noteLast.errorType = "Recording"
  /\ noteLast.errorCode = "TYPE_ERROR"
  /\ noteLast.message = Str(ErrorMessages["General"]["UNKNOWN"])

====
